---- MODULE Spec2Model ----
(***************************************************************************)
(* ESP8266 NAPT router: the device lifecycle (user_main.c), the ESP-TOUCH  *)
(* provisioning session (esp_touch.c), the router configuration and the    *)
(* port-map load (router.c) and the meta-data responder (device_info.c).   *)
(*                                                                         *)
(* Every C function is an operator from a state record to a state record   *)
(* (or to a record [st, ret] when its return value is used), so a handler  *)
(* that calls other functions is the composition of their operators.  The  *)
(* actions at the end are the callbacks the SDK can invoke: the GPIO       *)
(* interrupt, the timer expiries, the SmartConfig status events and the    *)
(* WiFi events.  Callbacks run to completion, one at a time.               *)
(***************************************************************************)
EXTENDS Integers, Sequences, FiniteSets, TLC

\* ------------------------------------------------------------------ bounds

\* Uplink addresses the host access-point may hand out: 1..MaxAddr.
MaxAddr == 2

\* Capacity of the translation engine's port-map table (the value of
\* IP_PORTMAP_MAX belongs to the lwip NAPT patch, not to this repository).
MaxPortmap == 2

\* ------------------------------------------------------- program constants

ESP_TOUCH_ATTEMPTS_LIMIT == 3
ESP_TOUCH_CONFIG_TIMEOUT_THRESHOLD == 30000
ESP_TOUCH_RECV_TIMEOUT_THRESHOLD == 30000
ESP_TOUCH_CONNECTION_TIMEOUT_THRESHOLD == 60000
ROUTER_CONN_TIMEOUT_WDT_INTERVAL == 300000
LED_BLINK_INTERVAL == 2000
VITAL_SIGN_TIME_INTERVAL == 300000
ESPTOUCH_WAIT_INTERVAL == 500

\* WiFi operation modes of the SDK (user_interface.h).
NULL_MODE == 0
STATION_MODE == 1
SOFTAP_MODE == 2
STATIONAP_MODE == 3

IP_PORTMAP_MAX == MaxPortmap

Addrs == 1..MaxAddr

\* ------------------------------------------------------------ os_timer_t

\* A timer handle: st is "null" (no handle), "idle" (allocated, disarmed) or
\* "armed"; fn is the callback bound by os_timer_setfn, ms and rep the
\* arguments of os_timer_arm.
NullTimer == [st |-> "null", fn |-> "none", ms |-> 0, rep |-> FALSE]

\* os_zalloc(sizeof(os_timer_t)): a zeroed handle, or NULL when the heap is
\* exhausted (ok = FALSE).
os_zalloc_timer(ok) ==
  IF ok THEN [st |-> "idle", fn |-> "none", ms |-> 0, rep |-> FALSE]
        ELSE NullTimer

os_timer_disarm(t) == [t EXCEPT !.st = "idle"]

os_timer_setfn(t, f) == [t EXCEPT !.fn = f]

os_timer_arm(t, interval, repeat) ==
  [t EXCEPT !.st = "armed", !.ms = interval, !.rep = repeat]

\* The timer facility, when an armed timer expires: a single-shot timer is
\* taken off the timer list before its callback runs, a periodic one stays.
TimerExpired(t) == IF t.rep THEN t ELSE [t EXCEPT !.st = "idle"]

\* --------------------------------------------------------- espconn socket

NullSocket == [st |-> "null", udp |-> FALSE, created |-> FALSE]

\* ------------------------------------------- user_config.h: port-map slots

\* ipaddr_addr: dotted quad to the 32 bit address in network byte order as
\* the little-endian CPU holds it, kept as its two 16 bit halves.
ipaddr_addr(q) ==
  [hi |-> (q[4] * 256 + q[3]) % 65536, lo |-> (q[2] * 256 + q[1]) % 65536]

EmptySlot ==
  [enable |-> 0, proto |-> 0, mport |-> 0, daddr |-> <<>>, dport |-> 0, dir |-> 0]

\* PORTMAP_*_1 .. PORTMAP_*_8 as shipped.
UserConfig ==
  [i \in 1..8 |->
     IF i = 1
     THEN [enable |-> 1, proto |-> 6, mport |-> 8883,
           daddr |-> <<192, 168, 13, 37>>, dport |-> 8883, dir |-> 2]
     ELSE EmptySlot]

EmptyEntry ==
  [valid |-> 0, proto |-> 0, maddr |-> 0, mport |-> 0,
   daddr |-> [hi |-> 0, lo |-> 0], dport |-> 0, dir |-> 0]

\* ------------------------------------------------------------------ state

VARIABLES
  \* user_main.c
  led_blink_timer,          \* static os_timer_t *led_blink_timer
  router_conn_timeout_wdt,  \* static os_timer_t *router_conn_timeout_wdt
  esptouch_wait_timer,      \* the poll timer router_enable allocates
  status_led,               \* green LED lit
  output_power,             \* relay energised
  gpio_intr_enabled,        \* ETS_GPIO_INTR_ENABLE / _DISABLE
  gpio_intr_status,         \* GPIO_STATUS bit of the pushbutton (the latch)
  \* esp_touch.c
  esptouch_running,
  esptouch_success,
  esptouch_attempt_count,
  esptouch_timeout_timer,
  smartconfig_running,      \* smartconfig_start / smartconfig_stop
  \* router.c and the network stack
  router_connected,
  ip_portmap_table,         \* table of the translation engine, 1..MaxPortmap
  portmap_initialised,      \* ip_portmap_table != NULL
  wifi_opmode,
  wifi_event_handler,       \* wifi_set_event_handler_cb: handler registered
  station_connect,          \* wifi_station_connect requested, not cleared
  sdk_calls,                \* SDK calls of the callback that ran last, in order
  \* device_info.c
  udp_com_socket,
  vital_sign_timer,
  \* history
  lifecycle,                \* Idle, Provisioning or Routing
  timeouts,                 \* esptouch_fail_cb runs since esptouch_init
  got_ip,                   \* last got-address event since router_init:
                            \* "none", "ok" or "failed" (its configuration)
  crashed,                  \* a fatal exception ended the run
  last                      \* the callback that ran last, and its outcome

vars ==
  <<led_blink_timer, router_conn_timeout_wdt, esptouch_wait_timer, status_led,
    output_power, gpio_intr_enabled, gpio_intr_status, esptouch_running,
    esptouch_success, esptouch_attempt_count, esptouch_timeout_timer,
    smartconfig_running, router_connected, ip_portmap_table,
    portmap_initialised, wifi_opmode, wifi_event_handler, station_connect,
    sdk_calls, udp_com_socket, vital_sign_timer, lifecycle, timeouts, got_ip,
    crashed, last>>

\* The current state as a record, the argument of the function operators;
\* the log of SDK calls starts empty with every callback.
S ==
  [led_blink_timer |-> led_blink_timer,
   router_conn_timeout_wdt |-> router_conn_timeout_wdt,
   esptouch_wait_timer |-> esptouch_wait_timer,
   status_led |-> status_led,
   output_power |-> output_power,
   gpio_intr_enabled |-> gpio_intr_enabled,
   gpio_intr_status |-> gpio_intr_status,
   esptouch_running |-> esptouch_running,
   esptouch_success |-> esptouch_success,
   esptouch_attempt_count |-> esptouch_attempt_count,
   esptouch_timeout_timer |-> esptouch_timeout_timer,
   smartconfig_running |-> smartconfig_running,
   router_connected |-> router_connected,
   ip_portmap_table |-> ip_portmap_table,
   portmap_initialised |-> portmap_initialised,
   wifi_opmode |-> wifi_opmode,
   wifi_event_handler |-> wifi_event_handler,
   station_connect |-> station_connect,
   sdk_calls |-> <<>>,
   udp_com_socket |-> udp_com_socket,
   vital_sign_timer |-> vital_sign_timer,
   lifecycle |-> lifecycle,
   timeouts |-> timeouts,
   got_ip |-> got_ip,
   crashed |-> crashed,
   last |-> last]

\* The next state is the record r.
Set(r) ==
  /\ led_blink_timer' = r.led_blink_timer
  /\ router_conn_timeout_wdt' = r.router_conn_timeout_wdt
  /\ esptouch_wait_timer' = r.esptouch_wait_timer
  /\ status_led' = r.status_led
  /\ output_power' = r.output_power
  /\ gpio_intr_enabled' = r.gpio_intr_enabled
  /\ gpio_intr_status' = r.gpio_intr_status
  /\ esptouch_running' = r.esptouch_running
  /\ esptouch_success' = r.esptouch_success
  /\ esptouch_attempt_count' = r.esptouch_attempt_count
  /\ esptouch_timeout_timer' = r.esptouch_timeout_timer
  /\ smartconfig_running' = r.smartconfig_running
  /\ router_connected' = r.router_connected
  /\ ip_portmap_table' = r.ip_portmap_table
  /\ portmap_initialised' = r.portmap_initialised
  /\ wifi_opmode' = r.wifi_opmode
  /\ wifi_event_handler' = r.wifi_event_handler
  /\ station_connect' = r.station_connect
  /\ sdk_calls' = r.sdk_calls
  /\ udp_com_socket' = r.udp_com_socket
  /\ vital_sign_timer' = r.vital_sign_timer
  /\ lifecycle' = r.lifecycle
  /\ timeouts' = r.timeouts
  /\ got_ip' = r.got_ip
  /\ crashed' = r.crashed
  /\ last' = r.last

\* A function's result together with the state it leaves.
Ret(s, r) == [st |-> s, ret |-> r]

\* The SDK call (or hardware access) named c is made.
Call(s, c) == [s EXCEPT !.sdk_calls = Append(@, c)]

\* ---------------------------------------------------------- SDK calls

smartconfig_stop(s) ==
  Call([s EXCEPT !.smartconfig_running = FALSE], "smartconfig_stop")

\* smartconfig_start returns whether the transport could be started (ok);
\* the program never reads that result.
smartconfig_start(s, ok) ==
  Call([s EXCEPT !.smartconfig_running = ok], "smartconfig_start")

wifi_station_disconnect(s) ==
  Call([s EXCEPT !.station_connect = FALSE], "wifi_station_disconnect")

wifi_station_connect(s) ==
  Call([s EXCEPT !.station_connect = TRUE], "wifi_station_connect")

wifi_set_opmode(s, mode) ==
  Call([s EXCEPT !.wifi_opmode = mode], "wifi_set_opmode")

wifi_set_event_handler_cb(s, registered) ==
  Call([s EXCEPT !.wifi_event_handler = registered],
       "wifi_set_event_handler_cb")

\* ------------------------------------------------------- device_info.c

\* udp_info_recv_cb, the receive callback of the responder.  valid says
\* that arg and data are non-null and len is not 0, request that the
\* datagram is the meta-data request.  In a WiFi mode other than NULL_MODE
\* the callback reads the address of the interface and answers the sender;
\* no variable of the program changes.
udp_info_recv_cb(s, valid, request) ==
  IF ~valid THEN s
  ELSE IF ~request THEN s
  ELSE IF s.wifi_opmode \in {SOFTAP_MODE, STATION_MODE, STATIONAP_MODE}
  THEN Call(s, "wifi_get_macaddr")
  ELSE s

\* vital_sign_broadcast: in a WiFi mode other than NULL_MODE it reads the
\* address of the interface and sends one datagram.  Lines 152-154 write
\* through udp_com_socket->proto.udp without a null test: with the socket
\* or its protocol block null, fault says what the build makes of that,
\* "exception" (the store traps and the run ends) or "ignored".
vital_sign_broadcast(s, fault) ==
  IF s.wifi_opmode \in {SOFTAP_MODE, STATION_MODE, STATIONAP_MODE}
  THEN LET s1 == Call(s, "wifi_get_macaddr")
       IN IF s1.udp_com_socket.st = "null" \/ ~s1.udp_com_socket.udp
          THEN (IF fault = "exception" THEN [s1 EXCEPT !.crashed = TRUE]
                ELSE s1)
          ELSE s1
  ELSE s

vital_sign_bcast_stop(s) ==
  IF s.vital_sign_timer.st # "null"
  THEN Call([s EXCEPT !.vital_sign_timer = NullTimer],
            "os_free vital_sign_timer")
  ELSE s

vital_sign_bcast_start(s, timer_ok) ==
  IF s.udp_com_socket.st = "null" THEN s
  ELSE
    LET s1 == Call(s, "wifi_set_broadcast_if")
        t  == IF s1.vital_sign_timer.st = "null"
              THEN os_zalloc_timer(timer_ok)
              ELSE s1.vital_sign_timer
    IN IF t.st = "null" THEN [s1 EXCEPT !.vital_sign_timer = t]
       ELSE [s1 EXCEPT !.vital_sign_timer =
               os_timer_arm(os_timer_setfn(os_timer_disarm(t),
                                           "vital_sign_broadcast"),
                            VITAL_SIGN_TIME_INTERVAL, TRUE)]

device_info_disable(s) ==
  LET s1 == vital_sign_bcast_stop(s)
  IN IF s1.udp_com_socket.st # "null"
     THEN Call([s1 EXCEPT !.udp_com_socket = NullSocket],
               "os_free udp_com_socket")
     ELSE s1

\* device_info_init.  When the allocation of proto.udp fails the function
\* releases the socket and then goes on to write udp_com_socket->type
\* through the null handle (lines 250-252): fault says what the build makes
\* of that, "exception" (the store traps and the run ends) or "ignored"
\* (the stores land nowhere visible and espconn_create rejects the null
\* handle).
device_info_init(s, sock_ok, udp_ok, create_ok, fault) ==
  LET sock == IF s.udp_com_socket.st = "null"
              THEN (IF sock_ok THEN [st |-> "alloc", udp |-> FALSE,
                                     created |-> FALSE]
                               ELSE NullSocket)
              ELSE s.udp_com_socket
      s1 == [s EXCEPT !.udp_com_socket = sock]
  IN IF sock.st = "null" THEN s1
     ELSE IF ~sock.udp /\ ~udp_ok
     THEN LET s2 == device_info_disable(s1)
          IN IF fault = "exception" THEN [s2 EXCEPT !.crashed = TRUE]
             ELSE s2
     ELSE [s1 EXCEPT !.udp_com_socket =
             [st |-> "alloc", udp |-> TRUE,
              created |-> (sock.created \/ create_ok)]]

\* --------------------------------------------------------- esp_touch.c

esptouch_is_running(s) == s.esptouch_running

\* Mutant: the outcome is reported as success whatever the session did.
esptouch_was_successful_always(s) == TRUE

esptouch_was_successful(s) == s.esptouch_success

\* Mutant: the session timer is left armed on success.
esptouch_success_cb_keepsTimer(s) ==
  [s EXCEPT !.esptouch_running = FALSE, !.esptouch_success = TRUE]

\* Mutant: the success callback switches the indicator on itself.
esptouch_success_cb_ledOn(s) ==
  LET s1 == IF s.esptouch_timeout_timer.st # "null"
            THEN Call([s EXCEPT !.esptouch_timeout_timer = NullTimer],
                      "os_free esptouch_timeout_timer")
            ELSE s
  IN [s1 EXCEPT !.esptouch_running = FALSE, !.esptouch_success = TRUE,
                !.status_led = TRUE]

esptouch_success_cb(s) ==
  LET s1 == IF s.esptouch_timeout_timer.st # "null"
            THEN Call([s EXCEPT !.esptouch_timeout_timer = NullTimer],
                      "os_free esptouch_timeout_timer")
            ELSE s
  IN [s1 EXCEPT !.esptouch_running = FALSE, !.esptouch_success = TRUE]

esptouch_start_cb(s) == s

\* Mutant: the session timer is neither disarmed nor released.
esptouch_disable_keepsTimer(s) ==
  [smartconfig_stop(s) EXCEPT !.esptouch_running = FALSE]

esptouch_disable(s) ==
  LET s1 == smartconfig_stop(s)
      s2 == IF s1.esptouch_timeout_timer.st # "null"
            THEN Call([s1 EXCEPT !.esptouch_timeout_timer = NullTimer],
                      "os_free esptouch_timeout_timer")
            ELSE s1
  IN [s2 EXCEPT !.esptouch_running = FALSE]

\* Mutant: the limit test lets one attempt too many through.
AttemptsLeft_offByOne(s) ==
  s.esptouch_attempt_count <= ESP_TOUCH_ATTEMPTS_LIMIT

\* The test of line 186.
AttemptsLeft(s) == s.esptouch_attempt_count < ESP_TOUCH_ATTEMPTS_LIMIT

\* Mutant: the session is left running when the limit is reached.
AbortSession_keepsRunning(s) ==
  IF s.esptouch_timeout_timer.st # "null"
  THEN Call([s EXCEPT !.esptouch_timeout_timer = NullTimer],
            "os_free esptouch_timeout_timer")
  ELSE s

\* Mutant: the session timer is not released when the limit is reached.
AbortSession_leaksTimer(s) == [s EXCEPT !.esptouch_running = FALSE]

\* The else branch of esptouch_fail_cb: the attempt limit is reached.
AbortSession(s) ==
  LET s1 == IF s.esptouch_timeout_timer.st # "null"
            THEN Call([s EXCEPT !.esptouch_timeout_timer = NullTimer],
                      "os_free esptouch_timeout_timer")
            ELSE s
  IN [s1 EXCEPT !.esptouch_running = FALSE]

\* Mutant: the retry restarts the transport without arming the timeout.
RetrySession_noTimeout(s, start_ok) ==
  smartconfig_start([s EXCEPT !.esptouch_attempt_count = (@ + 1) % 256],
                    start_ok)

\* The then branch of esptouch_fail_cb: another attempt.
RetrySession(s, start_ok) ==
  LET s4 == [s EXCEPT !.esptouch_attempt_count = (@ + 1) % 256]
      s5 == IF s4.esptouch_timeout_timer.st # "null"
            THEN [s4 EXCEPT !.esptouch_timeout_timer =
                    os_timer_arm(os_timer_setfn(@, "esptouch_fail_cb"),
                                 ESP_TOUCH_CONFIG_TIMEOUT_THRESHOLD, FALSE)]
            ELSE s4
  IN smartconfig_start(s5, start_ok)

\* The timeout callback.  timeouts counts its runs in the session; start_ok
\* is the outcome of the restart of the transport.
esptouch_fail_cb(s, start_ok) ==
  LET s1 == wifi_station_disconnect(smartconfig_stop(s))
      s2 == IF s1.esptouch_timeout_timer.st # "null"
            THEN [s1 EXCEPT !.esptouch_timeout_timer = os_timer_disarm(@)]
            ELSE s1
      s3 == [s2 EXCEPT !.timeouts = @ + 1]
  IN IF AttemptsLeft(s3) THEN RetrySession(s3, start_ok)
     ELSE AbortSession(s3)

\* Mutant: the status events leave the session timer with the deadline it
\* had.
RearmTimeout_keepsDeadline(s, threshold) == s

\* Mutant: the status events arm the session timer without the null test.
RearmTimeout_noNullCheck(s, threshold) ==
  [s EXCEPT !.esptouch_timeout_timer =
     os_timer_arm(os_timer_setfn(os_timer_disarm(@), "esptouch_fail_cb"),
                  threshold, FALSE)]

\* Re-arm of the session timer in esptouch_status_cb (lines 120-124 and
\* 148-152); esptouch_func.esptouch_fail_cb is set since esptouch_init.
RearmTimeout(s, threshold) ==
  IF s.esptouch_timeout_timer.st # "null"
  THEN [s EXCEPT !.esptouch_timeout_timer =
          os_timer_arm(os_timer_setfn(os_timer_disarm(@), "esptouch_fail_cb"),
                       threshold, FALSE)]
  ELSE s

\* status is the sc_status of the event; set_config_ok the result of
\* wifi_station_set_config on SC_STATUS_LINK.
esptouch_status_cb(s, status, set_config_ok) ==
  CASE status = "SC_STATUS_WAIT" -> s
    [] status = "SC_STATUS_FIND_CHANNEL" -> esptouch_start_cb(s)
    [] status = "SC_STATUS_GETTING_SSID_PSWD" ->
         RearmTimeout(s, ESP_TOUCH_RECV_TIMEOUT_THRESHOLD)
    [] status = "SC_STATUS_LINK" ->
         LET s1 == wifi_station_disconnect(s)
             s2 == IF set_config_ok THEN wifi_station_connect(s1)
                                    ELSE esptouch_disable(s1)
         IN RearmTimeout(s2, ESP_TOUCH_CONNECTION_TIMEOUT_THRESHOLD)
    [] status = "SC_STATUS_LINK_OVER" ->
         esptouch_success_cb(smartconfig_stop(s))
    [] OTHER -> s

\* Mutant: the session timer is allocated and configured but not armed.
esptouch_init_unarmed(s, timer_ok, start_ok) ==
  LET s1 == [s EXCEPT !.esptouch_running = TRUE,
                      !.esptouch_success = FALSE,
                      !.esptouch_attempt_count = 1,
                      !.timeouts = 0]
      s2 == wifi_set_opmode(wifi_station_disconnect(s1), STATION_MODE)
      s3 == [s2 EXCEPT !.esptouch_timeout_timer = os_zalloc_timer(timer_ok)]
      s4 == IF s3.esptouch_timeout_timer.st # "null"
            THEN [s3 EXCEPT !.esptouch_timeout_timer =
                    os_timer_setfn(os_timer_disarm(@), "esptouch_fail_cb")]
            ELSE s3
  IN smartconfig_start(s4, start_ok)

\* esptouch_init.  esptouch_status_cb is a function, so the test of line 276
\* is always true: smartconfig_start is always called and the else branch
\* with esptouch_disable is never taken, whatever smartconfig_start returns
\* (start_ok).
esptouch_init(s, timer_ok, start_ok) ==
  LET s1 == [s EXCEPT !.esptouch_running = TRUE,
                      !.esptouch_success = FALSE,
                      !.esptouch_attempt_count = 1,
                      !.timeouts = 0]
      s2 == wifi_set_opmode(wifi_station_disconnect(s1), STATION_MODE)
      s3 == [s2 EXCEPT !.esptouch_timeout_timer = os_zalloc_timer(timer_ok)]
      s4 == IF s3.esptouch_timeout_timer.st # "null"
            THEN [s3 EXCEPT !.esptouch_timeout_timer =
                    os_timer_arm(os_timer_setfn(os_timer_disarm(@),
                                                "esptouch_fail_cb"),
                                 ESP_TOUCH_CONFIG_TIMEOUT_THRESHOLD, FALSE)]
            ELSE s3
  IN smartconfig_start(s4, start_ok)

\* ------------------------------------------------------------- router.c

\* Mutant: the connection state is reported as lost whatever it is.
is_connected_never(s) == FALSE

is_connected(s) == s.router_connected

\* ip_portmap_add of the translation engine: the rule goes into the first
\* free entry; the call fails (returns 0) when the table is not allocated,
\* when it is full, or when the engine refuses the rule (ok = FALSE).  The
\* record of the call names the mapping port.
ip_portmap_add(s, proto, maddr, mport, daddr, dport, dir, ok) ==
  LET free == {i \in 1..IP_PORTMAP_MAX : s.ip_portmap_table[i].valid = 0}
      s0 == Call(s, "ip_portmap_add " \o ToString(mport))
  IN IF ~s.portmap_initialised \/ ~ok \/ free = {} THEN Ret(s0, 0)
     ELSE LET i == CHOOSE k \in free : \A j \in free : k <= j
          IN Ret([s0 EXCEPT !.ip_portmap_table[i] =
                    [valid |-> 1, proto |-> proto, maddr |-> maddr,
                     mport |-> mport, daddr |-> daddr, dport |-> dport,
                     dir |-> dir]], 1)

\* Mutant: the mapping address is written into every entry, valid or not.
portmap_update_everyEntry(s, station_ip_addr) ==
  IF station_ip_addr = <<>> THEN s
  ELSE IF ~s.portmap_initialised THEN s
  ELSE [Call(s, "portmap_update") EXCEPT !.ip_portmap_table =
          [idx \in 1..IP_PORTMAP_MAX |->
             [s.ip_portmap_table[idx] EXCEPT !.maddr = station_ip_addr[1]]]]

\* Mutant: the update invalidates the entries instead of rewriting their
\* mapping address.
portmap_update_dropsEntries(s, station_ip_addr) ==
  IF station_ip_addr = <<>> THEN s
  ELSE IF ~s.portmap_initialised THEN s
  ELSE [Call(s, "portmap_update") EXCEPT !.ip_portmap_table =
          [idx \in 1..IP_PORTMAP_MAX |->
             [s.ip_portmap_table[idx] EXCEPT !.valid = 0]]]

\* station_ip_addr is <<>> for a null pointer and <<a>> for a pointer to
\* the address a.
portmap_update(s, station_ip_addr) ==
  IF station_ip_addr = <<>> THEN s
  ELSE IF ~s.portmap_initialised THEN s
  ELSE [Call(s, "portmap_update") EXCEPT !.ip_portmap_table =
          [idx \in 1..IP_PORTMAP_MAX |->
             IF s.ip_portmap_table[idx].valid # 0
             THEN [s.ip_portmap_table[idx] EXCEPT
                     !.maddr = station_ip_addr[1]]
             ELSE s.ip_portmap_table[idx]]]

dns_set(s) == Call(s, "dhcps_set_DNS")

\* Mutant: every step is performed whatever the earlier ones returned; the
\* result says whether all of them succeeded.
softap_network_config_noAbort(s, fail) ==
  Ret(Call(Call(Call(Call(Call(Call(s, "wifi_softap_dhcps_stop"),
                               "wifi_set_ip_info"),
                          "wifi_softap_set_dhcps_lease"),
                     "wifi_softap_dhcps_start"),
                "ip_napt_enable"),
           "wifi_set_broadcast_if"),
      fail \notin {"wifi_softap_dhcps_stop", "wifi_set_ip_info",
                   "wifi_softap_set_dhcps_lease", "wifi_softap_dhcps_start"})

\* fail names the first SDK call that reports failure, "none" when all
\* succeed.
softap_network_config(s, fail) ==
  LET s1 == Call(s, "wifi_softap_dhcps_stop")
  IN IF fail # "wifi_softap_dhcps_stop"
     THEN LET s2 == Call(s1, "wifi_set_ip_info")
          IN IF fail # "wifi_set_ip_info"
             THEN LET s3 == Call(s2, "wifi_softap_set_dhcps_lease")
                  IN IF fail # "wifi_softap_set_dhcps_lease"
                     THEN LET s4 == Call(s3, "wifi_softap_dhcps_start")
                          IN IF fail # "wifi_softap_dhcps_start"
                             THEN Ret(Call(Call(s4, "ip_napt_enable"),
                                           "wifi_set_broadcast_if"), TRUE)
                             ELSE Ret(s4, FALSE)
                     ELSE Ret(s3, FALSE)
             ELSE Ret(s2, FALSE)
     ELSE Ret(s1, FALSE)

\* softap_init.  Line 243 hands the structure ap_conf itself, not its
\* address, to os_memset, so the call fills whatever the first bytes of the
\* uninitialised structure point at: fault says what the build makes of
\* that, "exception" (the store traps and the run ends before
\* wifi_softap_set_config) or "ignored" (the stores do no visible harm).
softap_init(s, fail, fault) ==
  IF s.wifi_opmode >= SOFTAP_MODE
  THEN LET s1 == Call(s, "wifi_get_macaddr")
       IN IF fail # "wifi_get_macaddr"
          THEN IF fault = "exception"
               THEN Ret([s1 EXCEPT !.crashed = TRUE], FALSE)
               ELSE LET s2 == Call(s1, "wifi_softap_set_config")
                    IN IF fail # "wifi_softap_set_config"
                       THEN Ret(s2, TRUE)
                       ELSE Ret(s2, FALSE)
          ELSE Ret(s1, FALSE)
  ELSE Ret(s, FALSE)

\* One "if (PORTMAP_ENABLE_i) { ... }" block of portmap_init; r.ret = FALSE
\* says that an earlier block has returned false already.
PortmapSlot(r, cfg, i, oks) ==
  IF ~r.ret THEN r
  ELSE IF cfg[i].enable # 0
  THEN IF /\ cfg[i].proto # 0
          /\ cfg[i].mport # 0
          /\ cfg[i].daddr # <<>>
          /\ cfg[i].dport # 0
          /\ cfg[i].dir # 0
       THEN LET a == ip_portmap_add(r.st, cfg[i].proto, 0, cfg[i].mport,
                                    ipaddr_addr(cfg[i].daddr), cfg[i].dport,
                                    cfg[i].dir, oks[i])
            IN IF a.ret = 0 THEN Ret(a.st, FALSE) ELSE Ret(a.st, TRUE)
       ELSE r
  ELSE r

\* cfg is the slot configuration of user_config.h, oks[i] whether the
\* engine accepts the rule of slot i.
portmap_init(s, cfg, oks) ==
  LET r1 == PortmapSlot(Ret(s, TRUE), cfg, 1, oks)
      r2 == PortmapSlot(r1, cfg, 2, oks)
      r3 == PortmapSlot(r2, cfg, 3, oks)
      r4 == PortmapSlot(r3, cfg, 4, oks)
      r5 == PortmapSlot(r4, cfg, 5, oks)
      r6 == PortmapSlot(r5, cfg, 6, oks)
      r7 == PortmapSlot(r6, cfg, 7, oks)
  IN PortmapSlot(r7, cfg, 8, oks)

\* Mutant: router_init leaves router_connected as the last cycle left it.
router_init_keepsConnected(s, cfg, oks) ==
  wifi_set_event_handler_cb(
    portmap_init([s EXCEPT !.got_ip = "none"], cfg, oks).st, TRUE)

\* Mutant: router_init registers the event handler without loading the
\* port map.
router_init_noPortmap(s, cfg, oks) ==
  wifi_set_event_handler_cb(
    [s EXCEPT !.router_connected = FALSE, !.got_ip = "none"], TRUE)

router_init(s, cfg, oks) ==
  LET s1 == [s EXCEPT !.router_connected = FALSE, !.got_ip = "none"]
      r  == portmap_init(s1, cfg, oks)
  IN wifi_set_event_handler_cb(r.st, TRUE)

\* Mutant: the station-disconnected event also switches the indicator off.
wifi_handle_event_cb_ledOff(s, evt, ip, fail, fault) ==
  CASE evt = "EVENT_STAMODE_DISCONNECTED" ->
         [s EXCEPT !.router_connected = FALSE, !.status_led = FALSE]
    [] evt = "EVENT_STAMODE_GOT_IP" ->
         LET s1 == [portmap_update(s, <<ip>>) EXCEPT !.got_ip = "failed"]
         IN IF fail # "wifi_set_opmode"
            THEN LET a == softap_init(wifi_set_opmode(s1, STATIONAP_MODE),
                                      fail, fault)
                 IN IF a.ret
                    THEN LET c == softap_network_config(a.st, fail)
                         IN IF c.ret
                            THEN [dns_set(c.st) EXCEPT
                                    !.router_connected = TRUE,
                                    !.got_ip = "ok"]
                            ELSE c.st
                    ELSE a.st
            ELSE Call(s1, "wifi_set_opmode")
    [] OTHER -> s

\* Mutant: the mapping address is rewritten last, once the access point is
\* configured and the connection state set.
wifi_handle_event_cb_updateLast(s, evt, ip, fail, fault) ==
  CASE evt = "EVENT_STAMODE_DISCONNECTED" ->
         [s EXCEPT !.router_connected = FALSE]
    [] evt = "EVENT_STAMODE_GOT_IP" ->
         LET s1 == [s EXCEPT !.got_ip = "failed"]
         IN IF fail # "wifi_set_opmode"
            THEN LET a == softap_init(wifi_set_opmode(s1, STATIONAP_MODE),
                                      fail, fault)
                 IN IF a.ret
                    THEN LET c == softap_network_config(a.st, fail)
                         IN IF c.ret
                            THEN portmap_update(
                                   [dns_set(c.st) EXCEPT
                                      !.router_connected = TRUE,
                                      !.got_ip = "ok"], <<ip>>)
                            ELSE c.st
                    ELSE a.st
            ELSE Call(s1, "wifi_set_opmode")
    [] OTHER -> s

\* evt is the event, ip the address of a got-address event, fail the first
\* failing SDK call of the configuration it triggers, fault the outcome of
\* line 243 of softap_init.  got_ip records
\* whether the event reached "router_connected = true".
wifi_handle_event_cb(s, evt, ip, fail, fault) ==
  CASE evt = "EVENT_STAMODE_DISCONNECTED" ->
         [s EXCEPT !.router_connected = FALSE]
    [] evt = "EVENT_STAMODE_GOT_IP" ->
         LET s1 == [portmap_update(s, <<ip>>) EXCEPT !.got_ip = "failed"]
         IN IF fail # "wifi_set_opmode"
            THEN LET a == softap_init(wifi_set_opmode(s1, STATIONAP_MODE),
                                      fail, fault)
                 IN IF a.ret
                    THEN LET c == softap_network_config(a.st, fail)
                         IN IF c.ret
                            THEN [dns_set(c.st) EXCEPT
                                    !.router_connected = TRUE,
                                    !.got_ip = "ok"]
                            ELSE c.st
                    ELSE a.st
            ELSE Call(s1, "wifi_set_opmode")
    [] OTHER -> s

\* ----------------------------------------------------------- user_main.c

status_led_on(s) == Call([s EXCEPT !.status_led = TRUE], "status_led_on")

status_led_off(s) == Call([s EXCEPT !.status_led = FALSE], "status_led_off")

output_power_on(s) == [s EXCEPT !.output_power = TRUE]

output_power_off(s) == [s EXCEPT !.output_power = FALSE]

\* Mutant: the blink timer is disarmed and freed without the null test, so
\* a null handle is dereferenced.
FreeBlinkTimer_noNullCheck(s) ==
  IF s.led_blink_timer.st # "null"
  THEN Call([s EXCEPT !.led_blink_timer = NullTimer],
            "os_free led_blink_timer")
  ELSE [s EXCEPT !.crashed = TRUE]

\* "if (led_blink_timer) { disarm; free; led_blink_timer = NULL; }", in
\* router_disable_cb and in the success branch of the poll.
FreeBlinkTimer(s) ==
  IF s.led_blink_timer.st # "null"
  THEN Call([s EXCEPT !.led_blink_timer = NullTimer],
            "os_free led_blink_timer")
  ELSE s

\* Mutant: the watchdog timer is left as it is.
FreeWatchdog_skipped(s) == s

\* "if (router_conn_timeout_wdt) { disarm; free; ... = NULL; }".
FreeWatchdog(s) ==
  IF s.router_conn_timeout_wdt.st # "null"
  THEN Call([s EXCEPT !.router_conn_timeout_wdt = NullTimer],
            "os_free router_conn_timeout_wdt")
  ELSE s

\* The write to GPIO_STATUS_W1TC that clears the status bit of the
\* pushbutton; the record of the call says whether the bit was pending.
ClearButtonStatus(s) ==
  Call([s EXCEPT !.gpio_intr_status = FALSE],
       IF s.gpio_intr_status THEN "GPIO_STATUS_W1TC pending"
       ELSE "GPIO_STATUS_W1TC")

\* Mutant: teardown enables the interrupt without clearing the status bit.
router_disable_cb_keepsLatch(s) ==
  LET s1 == device_info_disable(s)
      s2 == wifi_set_event_handler_cb(
              wifi_set_opmode(wifi_station_disconnect(s1), NULL_MODE), FALSE)
      s5 == status_led_off(FreeWatchdog(FreeBlinkTimer(s2)))
      s6 == Call([s5 EXCEPT !.gpio_intr_enabled = FALSE],
                 "ETS_GPIO_INTR_DISABLE")
      s8 == Call([s6 EXCEPT !.gpio_intr_enabled = TRUE],
                 "ETS_GPIO_INTR_ENABLE")
  IN [s8 EXCEPT !.lifecycle = "Idle"]

\* Mutant: teardown de-energises the relay together with the indicator.
router_disable_cb_relayOff(s) ==
  LET s1 == device_info_disable(s)
      s2 == wifi_set_event_handler_cb(
              wifi_set_opmode(wifi_station_disconnect(s1), NULL_MODE), FALSE)
      s5 == output_power_off(status_led_off(FreeWatchdog(FreeBlinkTimer(s2))))
      s6 == Call([s5 EXCEPT !.gpio_intr_enabled = FALSE],
                 "ETS_GPIO_INTR_DISABLE")
      s8 == Call([ClearButtonStatus(s6) EXCEPT !.gpio_intr_enabled = TRUE],
                 "ETS_GPIO_INTR_ENABLE")
  IN [s8 EXCEPT !.lifecycle = "Idle"]

\* Teardown.  The last three lines disable the interrupt, clear the status
\* bit of the pushbutton and enable the interrupt again.  lifecycle records
\* that the device is Idle from here on.
router_disable_cb(s) ==
  LET s1 == device_info_disable(s)
      s2 == wifi_set_event_handler_cb(
              wifi_set_opmode(wifi_station_disconnect(s1), NULL_MODE), FALSE)
      s3 == FreeBlinkTimer(s2)
      s4 == FreeWatchdog(s3)
      s5 == status_led_off(s4)
      s6 == Call([s5 EXCEPT !.gpio_intr_enabled = FALSE],
                 "ETS_GPIO_INTR_DISABLE")
      s7 == ClearButtonStatus(s6)
      s8 == Call([s7 EXCEPT !.gpio_intr_enabled = TRUE],
                 "ETS_GPIO_INTR_ENABLE")
  IN [s8 EXCEPT !.lifecycle = "Idle"]

\* Mutant: the test of the connection state is inverted.
router_conn_timeout_wdtfunc_inverted(s) ==
  IF is_connected(s) THEN router_disable_cb(s) ELSE s

router_conn_timeout_wdtfunc(s) ==
  IF ~is_connected(s) THEN router_disable_cb(s) ELSE s

\* Mutant: the success branch of the poll disarms and frees the blink timer
\* without the null test.
SteadyLed_noNullCheck(s) ==
  IF s.led_blink_timer.st # "null"
  THEN status_led_on(Call([s EXCEPT !.led_blink_timer = NullTimer],
                          "os_free led_blink_timer"))
  ELSE [s EXCEPT !.crashed = TRUE]

\* Mutant: the LED is switched on but the blink timer keeps toggling it.
SteadyLed_keepsBlinking(s) == status_led_on(s)

\* Lines 162-167 of the poll: release the blink timer, LED on.
SteadyLed(s) == status_led_on(FreeBlinkTimer(s))

\* Mutant: the watchdog is armed as a single-shot timer.
ArmWatchdog_singleShot(s) ==
  IF s.router_conn_timeout_wdt.st = "null"
  THEN [s EXCEPT !.crashed = TRUE]
  ELSE [s EXCEPT !.router_conn_timeout_wdt =
          os_timer_arm(os_timer_setfn(os_timer_disarm(@),
                                      "router_conn_timeout_wdtfunc"),
                       ROUTER_CONN_TIMEOUT_WDT_INTERVAL, FALSE)]

\* Lines 171-173 of the poll.  They use router_conn_timeout_wdt without a
\* null test: on a null handle the run ends with an exception.
ArmWatchdog(s) ==
  IF s.router_conn_timeout_wdt.st = "null"
  THEN [s EXCEPT !.crashed = TRUE]
  ELSE [s EXCEPT !.router_conn_timeout_wdt =
          os_timer_arm(os_timer_setfn(os_timer_disarm(@),
                                      "router_conn_timeout_wdtfunc"),
                       ROUTER_CONN_TIMEOUT_WDT_INTERVAL, TRUE)]

\* Mutant: the poll leaves its own timer armed when the session has ended.
esptouch_over_timerfunc_keepsPollTimer(s, sock_ok, udp_ok, create_ok, fault, vital_ok) ==
  IF ~esptouch_is_running(s)
  THEN IF esptouch_was_successful(s)
       THEN LET s3 == [SteadyLed(s) EXCEPT !.lifecycle = "Routing"]
                s4 == ArmWatchdog(s3)
            IN IF s4.crashed THEN s4
               ELSE LET s5 == device_info_init(s4, sock_ok, udp_ok,
                                               create_ok, fault)
                    IN IF s5.crashed THEN s5
                       ELSE vital_sign_bcast_start(s5, vital_ok)
       ELSE router_disable_cb(s)
  ELSE s

\* Mutant: the failure branch of the poll tears down with the poll timer
\* still armed.
esptouch_over_timerfunc_pollsAfterTeardown(s, sock_ok, udp_ok, create_ok, fault, vital_ok) ==
  IF ~esptouch_is_running(s)
  THEN IF esptouch_was_successful(s)
       THEN LET s1 == IF s.esptouch_wait_timer.st # "null"
                      THEN Call([s EXCEPT !.esptouch_wait_timer = NullTimer],
                                "os_free esptouch_wait_timer")
                      ELSE s
                s3 == [SteadyLed(s1) EXCEPT !.lifecycle = "Routing"]
                s4 == ArmWatchdog(s3)
            IN IF s4.crashed THEN s4
               ELSE LET s5 == device_info_init(s4, sock_ok, udp_ok,
                                               create_ok, fault)
                    IN IF s5.crashed THEN s5
                       ELSE vital_sign_bcast_start(s5, vital_ok)
       ELSE router_disable_cb(s)
  ELSE s

\* The poll.  The timer argument is esptouch_wait_timer itself.  lifecycle
\* records that the success branch makes the device Routing.
esptouch_over_timerfunc(s, sock_ok, udp_ok, create_ok, fault, vital_ok) ==
  IF ~esptouch_is_running(s)
  THEN LET s1 == IF s.esptouch_wait_timer.st # "null"
                 THEN Call([s EXCEPT !.esptouch_wait_timer = NullTimer],
                           "os_free esptouch_wait_timer")
                 ELSE s
       IN IF esptouch_was_successful(s1)
          THEN LET s3 == [SteadyLed(s1) EXCEPT !.lifecycle = "Routing"]
                   s4 == ArmWatchdog(s3)
               IN IF s4.crashed THEN s4
                  ELSE LET s5 == device_info_init(s4, sock_ok, udp_ok,
                                                  create_ok, fault)
                       IN IF s5.crashed THEN s5
                          ELSE vital_sign_bcast_start(s5, vital_ok)
          ELSE router_disable_cb(s1)
  ELSE s

led_blink_timerfunc(s) ==
  IF s.status_led THEN status_led_off(s) ELSE status_led_on(s)

\* Mutant: the watchdog is armed as soon as it is allocated.
AllocWatchdog_armed(s, wdt_ok) ==
  IF s.router_conn_timeout_wdt.st = "null"
  THEN LET t == os_zalloc_timer(wdt_ok)
       IN IF t.st = "null" THEN [s EXCEPT !.router_conn_timeout_wdt = t]
          ELSE [s EXCEPT !.router_conn_timeout_wdt =
                  os_timer_arm(os_timer_setfn(t, "router_conn_timeout_wdtfunc"),
                               ROUTER_CONN_TIMEOUT_WDT_INTERVAL, TRUE)]
  ELSE s

\* Lines 254-256 of router_enable.
AllocWatchdog(s, wdt_ok) ==
  IF s.router_conn_timeout_wdt.st = "null"
  THEN [s EXCEPT !.router_conn_timeout_wdt = os_zalloc_timer(wdt_ok)]
  ELSE s

\* Mutant: router_enable returns false without teardown when the watchdog
\* or the poll timer cannot be allocated.
router_enable_noTeardown(s, blink_ok, wdt_ok, wait_ok, touch_ok, start_ok, cfg, oks) ==
  LET s1 == IF s.led_blink_timer.st = "null"
            THEN LET t == os_zalloc_timer(blink_ok)
                 IN IF t.st = "null" THEN [s EXCEPT !.led_blink_timer = t]
                    ELSE [s EXCEPT !.led_blink_timer =
                            os_timer_arm(
                              os_timer_setfn(os_timer_disarm(t),
                                             "led_blink_timerfunc"),
                              LED_BLINK_INTERVAL, TRUE)]
            ELSE s
      s2 == AllocWatchdog(s1, wdt_ok)
      t2 == os_zalloc_timer(wait_ok)
  IN IF s2.router_conn_timeout_wdt.st # "null" /\ t2.st # "null"
     THEN LET s3 == [s2 EXCEPT !.esptouch_wait_timer =
                       os_timer_arm(
                         os_timer_setfn(os_timer_disarm(t2),
                                        "esptouch_over_timerfunc"),
                         ESPTOUCH_WAIT_INTERVAL, TRUE)]
              s4 == esptouch_init(router_init(s3, cfg, oks), touch_ok,
                                  start_ok)
          IN Ret([s4 EXCEPT !.lifecycle = "Provisioning"], TRUE)
     ELSE Ret(s2, FALSE)

\* router_enable; the result is its return value.  blink_ok, wdt_ok and
\* wait_ok are the outcomes of its three allocations, touch_ok the one of
\* esptouch_init, start_ok whether the transport starts, oks the outcomes
\* of the port-map installs.
router_enable(s, blink_ok, wdt_ok, wait_ok, touch_ok, start_ok, cfg, oks) ==
  LET s1 == IF s.led_blink_timer.st = "null"
            THEN LET t == os_zalloc_timer(blink_ok)
                 IN IF t.st = "null" THEN [s EXCEPT !.led_blink_timer = t]
                    ELSE [s EXCEPT !.led_blink_timer =
                            os_timer_arm(
                              os_timer_setfn(os_timer_disarm(t),
                                             "led_blink_timerfunc"),
                              LED_BLINK_INTERVAL, TRUE)]
            ELSE s
      s2 == AllocWatchdog(s1, wdt_ok)
  IN IF s2.router_conn_timeout_wdt.st # "null"
     THEN LET t == os_zalloc_timer(wait_ok)
          IN IF t.st # "null"
             THEN LET s3 == [s2 EXCEPT !.esptouch_wait_timer =
                               os_timer_arm(
                                 os_timer_setfn(os_timer_disarm(t),
                                                "esptouch_over_timerfunc"),
                                 ESPTOUCH_WAIT_INTERVAL, TRUE)]
                      s4 == esptouch_init(router_init(s3, cfg, oks), touch_ok,
                                          start_ok)
                  IN Ret([s4 EXCEPT !.lifecycle = "Provisioning"], TRUE)
             ELSE Ret(router_disable_cb(s2), FALSE)
     ELSE Ret(router_disable_cb(s2), FALSE)

\* Mutant: the handler does not disable the interrupt.
button_actuated_interrupt_handler_noDisable(s, blink_ok, wdt_ok, wait_ok, touch_ok, start_ok, cfg, oks) ==
  router_enable(s, blink_ok, wdt_ok, wait_ok, touch_ok, start_ok, cfg, oks).st

button_actuated_interrupt_handler(s, blink_ok, wdt_ok, wait_ok, touch_ok, start_ok, cfg, oks) ==
  router_enable(Call([s EXCEPT !.gpio_intr_enabled = FALSE],
                     "ETS_GPIO_INTR_DISABLE"),
                blink_ok, wdt_ok, wait_ok, touch_ok, start_ok, cfg, oks).st

\* gpio_pins_init: LED off, relay on, interrupt attached, status bit
\* cleared, interrupt enabled.
gpio_pins_init(s) ==
  LET s1 == output_power_on(status_led_off(s))
      s2 == Call([s1 EXCEPT !.gpio_intr_enabled = FALSE],
                 "ETS_GPIO_INTR_DISABLE")
      s3 == ClearButtonStatus(s2)
  IN Call([s3 EXCEPT !.gpio_intr_enabled = TRUE], "ETS_GPIO_INTR_ENABLE")

user_init(s) ==
  gpio_pins_init(
    wifi_set_event_handler_cb(
      wifi_set_opmode(wifi_station_disconnect(s), NULL_MODE), FALSE))

\* The statics as the loader leaves them; table_ready says whether the
\* translation engine has allocated its port-map table.
PowerOn(table_ready) ==
  [led_blink_timer |-> NullTimer,
   router_conn_timeout_wdt |-> NullTimer,
   esptouch_wait_timer |-> NullTimer,
   status_led |-> FALSE,
   output_power |-> FALSE,
   gpio_intr_enabled |-> FALSE,
   gpio_intr_status |-> FALSE,
   esptouch_running |-> FALSE,
   esptouch_success |-> FALSE,
   esptouch_attempt_count |-> 1,
   esptouch_timeout_timer |-> NullTimer,
   smartconfig_running |-> FALSE,
   router_connected |-> FALSE,
   ip_portmap_table |-> [i \in 1..IP_PORTMAP_MAX |-> EmptyEntry],
   portmap_initialised |-> table_ready,
   wifi_opmode |-> NULL_MODE,
   wifi_event_handler |-> FALSE,
   station_connect |-> FALSE,
   sdk_calls |-> <<>>,
   udp_com_socket |-> NullSocket,
   vital_sign_timer |-> NullTimer,
   lifecycle |-> "Idle",
   timeouts |-> 0,
   got_ip |-> "none",
   crashed |-> FALSE,
   last |-> [op |-> "user_init", arg |-> "-"]]

\* ---------------------------------------------------------------- actions

Did(r, op, arg) == Set([r EXCEPT !.last = [op |-> op, arg |-> arg]])

FailSteps ==
  {"none", "wifi_set_opmode", "wifi_get_macaddr", "wifi_softap_set_config",
   "wifi_softap_dhcps_stop", "wifi_set_ip_info",
   "wifi_softap_set_dhcps_lease", "wifi_softap_dhcps_start"}

ScStatus ==
  {"SC_STATUS_WAIT", "SC_STATUS_FIND_CHANNEL", "SC_STATUS_GETTING_SSID_PSWD",
   "SC_STATUS_LINK", "SC_STATUS_LINK_OVER"}

Faults == {"exception", "ignored"}

\* The allocation outcomes of router_enable and esptouch_init that lead to
\* different runs: after a failed watchdog or poll allocation the later
\* ones are not made.
EnableInputs ==
  {i \in [blink_ok : BOOLEAN, wdt_ok : BOOLEAN, wait_ok : BOOLEAN,
          touch_ok : BOOLEAN, start_ok : BOOLEAN, pm_ok : BOOLEAN] :
     /\ (~i.wdt_ok => ~i.wait_ok)
     /\ (~i.wait_ok => ~i.touch_ok /\ ~i.start_ok /\ ~i.pm_ok)}

\* The outcomes of device_info_init and vital_sign_bcast_start that lead to
\* different runs.
ResponderInputs ==
  {i \in [sock_ok : BOOLEAN, udp_ok : BOOLEAN, create_ok : BOOLEAN,
          vital_ok : BOOLEAN, fault : Faults] :
     /\ (~i.sock_ok => ~i.udp_ok)
     /\ (~i.udp_ok => ~i.create_ok /\ ~i.vital_ok)
     /\ (i.udp_ok \/ ~i.sock_ok => i.fault = "ignored")}

Init ==
  \E table_ready \in BOOLEAN :
    LET r == user_init(PowerOn(table_ready))
    IN /\ led_blink_timer = r.led_blink_timer
       /\ router_conn_timeout_wdt = r.router_conn_timeout_wdt
       /\ esptouch_wait_timer = r.esptouch_wait_timer
       /\ status_led = r.status_led
       /\ output_power = r.output_power
       /\ gpio_intr_enabled = r.gpio_intr_enabled
       /\ gpio_intr_status = r.gpio_intr_status
       /\ esptouch_running = r.esptouch_running
       /\ esptouch_success = r.esptouch_success
       /\ esptouch_attempt_count = r.esptouch_attempt_count
       /\ esptouch_timeout_timer = r.esptouch_timeout_timer
       /\ smartconfig_running = r.smartconfig_running
       /\ router_connected = r.router_connected
       /\ ip_portmap_table = r.ip_portmap_table
       /\ portmap_initialised = r.portmap_initialised
       /\ wifi_opmode = r.wifi_opmode
       /\ wifi_event_handler = r.wifi_event_handler
       /\ station_connect = r.station_connect
       /\ sdk_calls = r.sdk_calls
       /\ udp_com_socket = r.udp_com_socket
       /\ vital_sign_timer = r.vital_sign_timer
       /\ lifecycle = r.lifecycle
       /\ timeouts = r.timeouts
       /\ got_ip = r.got_ip
       /\ crashed = r.crashed
       /\ last = r.last

\* A rising edge on the pushbutton pin sets its status bit, whether or not
\* the interrupt is enabled and whether or not the bit is set already.
ButtonEdge ==
  /\ ~crashed
  /\ Did([S EXCEPT !.gpio_intr_status = TRUE], "edge", "-")

\* The interrupt is delivered while it is enabled and the status bit is set.
ButtonInterrupt ==
  /\ ~crashed
  /\ gpio_intr_enabled
  /\ gpio_intr_status
  /\ \E i \in EnableInputs :
       LET r == button_actuated_interrupt_handler(
                  S, i.blink_ok, i.wdt_ok, i.wait_ok, i.touch_ok, i.start_ok,
                  UserConfig, [k \in 1..8 |-> i.pm_ok])
       IN Did(r, "button",
              IF r.lifecycle = "Provisioning" THEN "true" ELSE "false")

BlinkTick ==
  /\ ~crashed
  /\ led_blink_timer.st = "armed"
  /\ Did(led_blink_timerfunc(
           [S EXCEPT !.led_blink_timer = TimerExpired(@)]), "blink", "-")

PollTick ==
  /\ ~crashed
  /\ esptouch_wait_timer.st = "armed"
  /\ \E i \in ResponderInputs :
       Did(esptouch_over_timerfunc(
             [S EXCEPT !.esptouch_wait_timer = TimerExpired(@)],
             i.sock_ok, i.udp_ok, i.create_ok, i.fault, i.vital_ok),
           "poll",
           IF esptouch_running THEN "running"
           ELSE IF esptouch_success THEN "success" ELSE "failure")

WatchdogTick ==
  /\ ~crashed
  /\ router_conn_timeout_wdt.st = "armed"
  /\ Did(router_conn_timeout_wdtfunc(
           [S EXCEPT !.router_conn_timeout_wdt = TimerExpired(@)]), "wdt",
         IF router_connected THEN "connected" ELSE "lost")

VitalTick ==
  /\ ~crashed
  /\ vital_sign_timer.st = "armed"
  /\ \E fault \in Faults :
       Did(vital_sign_broadcast(
             [S EXCEPT !.vital_sign_timer = TimerExpired(@)], fault),
           "vital", "-")

\* A datagram arrives on the responder's port: the receive callback is
\* registered once espconn_create has accepted the socket.
UdpRecvEvent ==
  /\ ~crashed
  /\ udp_com_socket.st # "null"
  /\ udp_com_socket.created
  /\ \E valid \in BOOLEAN, request \in BOOLEAN :
       Did(udp_info_recv_cb(S, valid, request), "udp_recv",
           IF ~valid THEN "invalid"
           ELSE IF request THEN "request" ELSE "other")

\* The session timeout: a single-shot timer, so it is off the list when
\* esptouch_fail_cb runs.
TimeoutTick ==
  /\ ~crashed
  /\ esptouch_timeout_timer.st = "armed"
  /\ \E start_ok \in BOOLEAN :
       Did(esptouch_fail_cb(
             [S EXCEPT !.esptouch_timeout_timer = TimerExpired(@)], start_ok),
           "timeout",
           IF esptouch_attempt_count < ESP_TOUCH_ATTEMPTS_LIMIT
           THEN "retry" ELSE "limit")

\* The transport reports a status while it is started.
StatusEvent ==
  /\ ~crashed
  /\ smartconfig_running
  /\ \E status \in ScStatus, set_config_ok \in BOOLEAN :
       Did(esptouch_status_cb(S, status, set_config_ok), status,
           IF status = "SC_STATUS_LINK" /\ ~set_config_ok
           THEN "set_config_failed" ELSE "-")

\* The station got an address: only after a connection was requested.
GotIpEvent ==
  /\ ~crashed
  /\ wifi_event_handler
  /\ station_connect
  /\ \E ip \in Addrs, fail \in FailSteps, fault \in Faults :
       /\ fail \in {"wifi_set_opmode", "wifi_get_macaddr"}
            => fault = "ignored"
       /\ Did(wifi_handle_event_cb(S, "EVENT_STAMODE_GOT_IP", ip, fail,
                                   fault),
              "EVENT_STAMODE_GOT_IP",
              IF fault = "exception" THEN "os_memset" ELSE fail)

DisconnectedEvent ==
  /\ ~crashed
  /\ wifi_event_handler
  /\ Did(wifi_handle_event_cb(S, "EVENT_STAMODE_DISCONNECTED", 0, "none",
                              "ignored"),
         "EVENT_STAMODE_DISCONNECTED", "-")

\* Connected, authentication mode changed, a client joined or left.
OtherWifiEvent ==
  /\ ~crashed
  /\ wifi_event_handler
  /\ \E evt \in {"EVENT_STAMODE_CONNECTED", "EVENT_STAMODE_AUTHMODE_CHANGE",
                 "EVENT_SOFTAPMODE_STACONNECTED",
                 "EVENT_SOFTAPMODE_STADISCONNECTED"} :
       Did(wifi_handle_event_cb(S, evt, 0, "none", "ignored"),
           "wifi_other", "-")

Next ==
  \/ ButtonEdge
  \/ ButtonInterrupt
  \/ BlinkTick
  \/ PollTick
  \/ WatchdogTick
  \/ VitalTick
  \/ UdpRecvEvent
  \/ TimeoutTick
  \/ StatusEvent
  \/ GotIpEvent
  \/ DisconnectedEvent
  \/ OtherWifiEvent

Spec == Init /\ [][Next]_vars

\* The SDK's timer facility runs the callback of every armed timer when its
\* interval has passed; nothing is assumed about the button, the SmartConfig
\* transport or the WiFi events.
FairSpec ==
  /\ Spec
  /\ WF_vars(BlinkTick)
  /\ WF_vars(PollTick)
  /\ WF_vars(WatchdogTick)
  /\ WF_vars(VitalTick)
  /\ WF_vars(TimeoutTick)

\* ------------------------------------------------------------- properties

\* The program's variables without the history of the last callback.
prog ==
  <<led_blink_timer, router_conn_timeout_wdt, esptouch_wait_timer, status_led,
    output_power, gpio_intr_enabled, gpio_intr_status, esptouch_running,
    esptouch_success, esptouch_attempt_count, esptouch_timeout_timer,
    smartconfig_running, router_connected, ip_portmap_table,
    portmap_initialised, wifi_opmode, wifi_event_handler, station_connect,
    udp_com_socket, vital_sign_timer, lifecycle, timeouts, got_ip, crashed>>

Timers ==
  {led_blink_timer, router_conn_timeout_wdt, esptouch_wait_timer,
   esptouch_timeout_timer, vital_sign_timer}

NoTimerArmed == \A t \in Timers : t.st # "armed"

\* C1: the button interrupt handler, and with it router_enable, runs only
\* from Idle: the interrupt is disabled in every state that is not Idle, and
\* every step that runs the handler starts in Idle.
C1_EnableOnlyFromIdle ==
  /\ [](lifecycle # "Idle" => ~gpio_intr_enabled)
  /\ [][last'.op = "button" => lifecycle = "Idle"]_vars

\* A button edge arrives while the device is routing.
C1_Witness ==
  lifecycle = "Routing" /\ last.op = "edge" /\ gpio_intr_status

\* C2, as claimed: the lifecycle enters Routing only if is_connected() is
\* true at that moment.
C2_RoutingOnlyIfConnected ==
  [][lifecycle # "Routing" /\ lifecycle' = "Routing" => router_connected']_vars

\* C2, amended: the lifecycle enters Routing in the poll tick that finds the
\* session ended and successful, and only there, whatever is_connected()
\* says; a got-address event whose configuration fails leaves
\* is_connected() as it was, so it never makes it true.
C2_RoutingOnlyAfterSuccess ==
  /\ [][lifecycle # "Routing" /\ lifecycle' = "Routing"
          => /\ last'.op = "poll"
             /\ ~esptouch_running
             /\ esptouch_success
             /\ router_connected' = router_connected]_vars
  /\ [][last'.op = "poll" /\ ~esptouch_running /\ esptouch_success
          => lifecycle' = "Routing"]_vars
  /\ [][last'.op = "EVENT_STAMODE_GOT_IP" /\ last'.arg # "none"
          => router_connected' = router_connected /\ got_ip' = "failed"]_vars

\* Routing was entered although the configuration of the access point
\* failed in the got-address event.
C2_Witness ==
  /\ lifecycle = "Routing"
  /\ last.op = "poll"
  /\ got_ip = "failed"
  /\ ~router_connected
  /\ ~crashed

\* C3: in Idle no timer is armed and the button interrupt is enabled, and
\* the only callbacks that run in Idle are the button edge and the button
\* interrupt.
C3_IdleQuiet ==
  /\ [](lifecycle = "Idle" => NoTimerArmed /\ gpio_intr_enabled)
  /\ [][lifecycle = "Idle" => last'.op \in {"edge", "button"}]_vars

\* Idle after the watchdog tore the router down.
C3_Witness ==
  lifecycle = "Idle" /\ last.op = "wdt" /\ last.arg = "lost"

\* C4: in Provisioning the button interrupt is disabled and the watchdog
\* timer is allocated and not armed.
C4_ProvisioningGuarded ==
  lifecycle = "Provisioning"
    => ~gpio_intr_enabled /\ router_conn_timeout_wdt.st = "idle"

\* Provisioning, in the third attempt.
C4_Witness ==
  lifecycle = "Provisioning" /\ esptouch_running /\ timeouts = 2

\* C5: in Routing the watchdog handle is non-null and armed as a periodic
\* timer bound to router_conn_timeout_wdtfunc.
C5_RoutingWatched ==
  lifecycle = "Routing"
    => /\ router_conn_timeout_wdt.st = "armed"
       /\ router_conn_timeout_wdt.rep
       /\ router_conn_timeout_wdt.fn = "router_conn_timeout_wdtfunc"
       /\ router_conn_timeout_wdt.ms = ROUTER_CONN_TIMEOUT_WDT_INTERVAL

\* Routing after a watchdog tick that found the uplink connected.
C5_Witness ==
  lifecycle = "Routing" /\ last.op = "wdt" /\ last.arg = "connected"

\* The state without the log of SDK calls.
NoLog(s) == [s EXCEPT !.sdk_calls = <<>>]

Releases ==
  {"os_free led_blink_timer", "os_free router_conn_timeout_wdt",
   "os_free vital_sign_timer", "os_free udp_com_socket"}

\* C6: teardown is idempotent.  From every reachable state, router_disable_cb
\* leaves blink and watchdog handles null, socket and vital-sign timer null,
\* the LED off, the WiFi role disabled and the interrupt enabled; a second
\* run right after it leaves exactly that state and releases nothing.
C6_TeardownIdempotent ==
  LET once  == router_disable_cb(S)
      twice == router_disable_cb(NoLog(once))
  IN /\ NoLog(twice) = NoLog(once)
     /\ \A i \in DOMAIN twice.sdk_calls : twice.sdk_calls[i] \notin Releases
     /\ once.led_blink_timer = NullTimer
     /\ once.router_conn_timeout_wdt = NullTimer
     /\ once.udp_com_socket = NullSocket
     /\ once.vital_sign_timer = NullTimer
     /\ ~once.status_led
     /\ once.wifi_opmode = NULL_MODE
     /\ once.gpio_intr_enabled

\* Teardown has run from Routing, with responder and timers to release.
C6_Witness ==
  /\ lifecycle = "Idle"
  /\ last.op = "wdt"
  /\ last.arg = "lost"
  /\ \E i \in DOMAIN sdk_calls : sdk_calls[i] = "os_free udp_com_socket"
  /\ \E i \in DOMAIN sdk_calls : sdk_calls[i] = "os_free vital_sign_timer"

\* C7: 1 <= esptouch_attempt_count <= ESP_TOUCH_ATTEMPTS_LIMIT always; a run
\* of esptouch_fail_cb adds exactly 1 (retry) or nothing (limit reached);
\* the only other change is the reset to 1 by esptouch_init, which runs in
\* the button interrupt.
C7_AttemptCount ==
  /\ [](/\ 1 <= esptouch_attempt_count
        /\ esptouch_attempt_count <= ESP_TOUCH_ATTEMPTS_LIMIT)
  /\ [][last'.op = "timeout"
          => IF last'.arg = "retry"
             THEN esptouch_attempt_count' = esptouch_attempt_count + 1
             ELSE esptouch_attempt_count' = esptouch_attempt_count]_vars
  /\ [][esptouch_attempt_count' # esptouch_attempt_count
          => \/ last'.op = "timeout"
             \/ last'.op = "button" /\ esptouch_attempt_count' = 1]_vars

\* The timeout of the last attempt has run: the counter stays at the limit.
C7_Witness ==
  /\ last.op = "timeout"
  /\ last.arg = "limit"
  /\ esptouch_attempt_count = ESP_TOUCH_ATTEMPTS_LIMIT

\* C8, as claimed: while no link-established event has come, the session
\* has stopped running exactly when it has seen ESP_TOUCH_ATTEMPTS_LIMIT
\* timeouts; with fewer it is still running.
C8_RunningUntilLimit ==
  (lifecycle = "Provisioning" /\ ~esptouch_success)
    => (esptouch_running <=> timeouts < ESP_TOUCH_ATTEMPTS_LIMIT)

\* C8, amended: after ESP_TOUCH_ATTEMPTS_LIMIT timeouts the session is
\* neither running nor successful; a session stops running without success
\* only at that timeout or when wifi_station_set_config fails on a
\* link-attempt event; and the poll tick that finds it stopped and not
\* successful leaves the device Idle, interrupt enabled, no timer armed.
C8_TimeoutsExhausted ==
  /\ [](lifecycle = "Provisioning" /\ timeouts = ESP_TOUCH_ATTEMPTS_LIMIT
          => ~esptouch_running /\ ~esptouch_success)
  /\ [](lifecycle = "Provisioning" => timeouts <= ESP_TOUCH_ATTEMPTS_LIMIT)
  /\ [][esptouch_running /\ ~esptouch_running' /\ ~esptouch_success'
          => \/ /\ last'.op = "timeout"
                /\ timeouts' = ESP_TOUCH_ATTEMPTS_LIMIT
             \/ /\ last'.op = "SC_STATUS_LINK"
                /\ last'.arg = "set_config_failed"]_vars
  /\ [][last'.op = "poll" /\ ~esptouch_running /\ ~esptouch_success
          => /\ lifecycle' = "Idle"
             /\ gpio_intr_enabled'
             /\ NoTimerArmed']_vars

\* Idle after a session that timed out in all its attempts.
C8_Witness ==
  /\ lifecycle = "Idle"
  /\ last.op = "poll"
  /\ last.arg = "failure"
  /\ timeouts = ESP_TOUCH_ATTEMPTS_LIMIT

\* C9: a session with two timeouts and then link-established ends in
\* Routing: the poll tick that finds the session ended and successful enters
\* Routing, and in Routing after two timeouts esptouch_attempt_count is 3,
\* the blink timer is released and the LED is on.
C9_ThirdAttemptSucceeds ==
  /\ [][last'.op = "poll" /\ ~esptouch_running /\ esptouch_success
          => lifecycle' = "Routing"]_vars
  /\ [](lifecycle = "Routing" /\ timeouts = 2
          => /\ esptouch_attempt_count = 3
             /\ esptouch_success
             /\ led_blink_timer = NullTimer
             /\ status_led)

\* Routing, reached by the poll after two timeouts.
C9_Witness ==
  /\ lifecycle = "Routing"
  /\ timeouts = 2
  /\ last.op = "poll"
  /\ ~crashed

\* C10: in Routing a watchdog tick that finds is_connected() false tears the
\* router down (responder stopped, station disconnected, role disabled,
\* event handler unregistered, watchdog and blink timers released, LED off,
\* interrupt enabled); one that finds it true changes nothing.
C10_WatchdogTick ==
  [][last'.op = "wdt" /\ lifecycle = "Routing"
       => IF ~router_connected
          THEN /\ lifecycle' = "Idle"
               /\ udp_com_socket' = NullSocket
               /\ vital_sign_timer' = NullTimer
               /\ ~station_connect'
               /\ wifi_opmode' = NULL_MODE
               /\ ~wifi_event_handler'
               /\ router_conn_timeout_wdt' = NullTimer
               /\ led_blink_timer' = NullTimer
               /\ ~status_led'
               /\ gpio_intr_enabled'
          ELSE prog' = prog /\ sdk_calls' = <<>>]_vars

\* The watchdog has torn the router down after the uplink was lost.
C10_Witness ==
  /\ lifecycle = "Idle"
  /\ last.op = "wdt"
  /\ last.arg = "lost"
  /\ got_ip = "ok"

\* C11, as claimed: under fairness of the timer expiries every Provisioning
\* state is followed by Routing or Idle, whatever the transport does and
\* whatever the timer allocations of router_enable and esptouch_init return;
\* and a Routing state without connectivity is followed by Idle with the
\* interrupt enabled unless connectivity is regained.  Runs that an
\* exception (in softap_init or in device_info_init) has ended are left
\* aside in both parts.
C11_AlwaysReturnsToIdle ==
  /\ (lifecycle = "Provisioning" /\ ~crashed)
       ~> (lifecycle \in {"Routing", "Idle"} \/ crashed)
  /\ (lifecycle = "Routing" /\ ~router_connected /\ ~crashed)
       ~> (router_connected \/ (lifecycle = "Idle" /\ gpio_intr_enabled)
           \/ crashed)

\* The arguments of portmap_update: the null pointer and every address.
UpdateArgs == {<<>>} \cup {<<ip>> : ip \in Addrs}

\* Entry new is entry old with at most the mapping address changed.
OnlyMaddr(old, new) == [new EXCEPT !.maddr = old.maddr] = old

\* C12: portmap_update(addr) changes nothing but the mapping address of the
\* entries whose valid flag is set: every other field of every entry and
\* every field of a non-valid entry stay as they were, no other variable
\* changes, and with a null address or an unallocated table nothing changes
\* at all.  The got-address event, which calls it, leaves the table with
\* exactly that change.
C12_UpdateOnlyMaddr ==
  /\ [](\A a \in UpdateArgs :
          LET r == portmap_update(S, a)
          IN /\ [NoLog(r) EXCEPT !.ip_portmap_table = ip_portmap_table] = S
             /\ \A i \in 1..IP_PORTMAP_MAX :
                  /\ OnlyMaddr(ip_portmap_table[i], r.ip_portmap_table[i])
                  /\ ip_portmap_table[i].valid = 0
                       => r.ip_portmap_table[i] = ip_portmap_table[i]
                  /\ (ip_portmap_table[i].valid # 0 /\ a # <<>>
                        /\ portmap_initialised)
                       => r.ip_portmap_table[i].maddr = a[1]
             /\ (a = <<>> \/ ~portmap_initialised) => r = S)
  /\ [][last'.op = "EVENT_STAMODE_GOT_IP"
          => \A i \in 1..IP_PORTMAP_MAX :
               /\ OnlyMaddr(ip_portmap_table[i], ip_portmap_table'[i])
               /\ ip_portmap_table[i].valid = 0
                    => ip_portmap_table'[i] = ip_portmap_table[i]]_vars

\* A got-address event has rewritten the mapping address of the installed
\* rule and left the free entry alone.
C12_Witness ==
  /\ last.op = "EVENT_STAMODE_GOT_IP"
  /\ \E i, j \in 1..IP_PORTMAP_MAX :
       /\ ip_portmap_table[i].valid = 1
       /\ ip_portmap_table[i].maddr = MaxAddr
       /\ ip_portmap_table[i].mport = 8883
       /\ ip_portmap_table[j] = EmptyEntry

\* Slot i of user_config.h in one of eight shapes: enabled and complete,
\* complete but disabled, enabled with one required field 0, or all 0.
SlotShapes ==
  {"full", "off", "no_proto", "no_mport", "no_daddr", "no_dport", "no_dir",
   "empty"}

TestSlot(i, shape) ==
  IF shape = "empty" THEN EmptySlot
  ELSE [enable |-> IF shape = "off" THEN 0 ELSE 1,
        proto  |-> IF shape = "no_proto" THEN 0 ELSE 6,
        mport  |-> IF shape = "no_mport" THEN 0 ELSE 8000 + i,
        daddr  |-> IF shape = "no_daddr" THEN <<>> ELSE <<192, 168, 13, i>>,
        dport  |-> IF shape = "no_dport" THEN 0 ELSE 80,
        dir    |-> IF shape = "no_dir" THEN 0 ELSE 2]

\* The configurations a build may have, bounded: the shipped one, and those
\* with two slots i < j of any shape and the other six slots all 0.
Configs ==
  {UserConfig} \cup
  {[k \in 1..8 |-> IF k = i THEN TestSlot(i, a)
                   ELSE IF k = j THEN TestSlot(j, b) ELSE EmptySlot] :
     i \in 1..7, j \in 2..8, a \in SlotShapes, b \in SlotShapes}

\* Which installs the translation engine accepts: all, or all but some of
\* slots 1, 2, 7.
Accepts == {[k \in 1..8 |-> k \notin F] : F \in SUBSET {1, 2, 7}}

\* The slot passes the test of portmap_init: enabled, no required field 0.
Eligible(slot) ==
  /\ slot.enable # 0
  /\ slot.proto # 0
  /\ slot.mport # 0
  /\ slot.daddr # <<>>
  /\ slot.dport # 0
  /\ slot.dir # 0

\* The run whose state is s has called ip_portmap_add for the slot.
Attempted(s, slot) ==
  \E k \in DOMAIN s.sdk_calls :
    s.sdk_calls[k] = "ip_portmap_add " \o ToString(slot.mport)

\* C13, as claimed: for every configuration and whatever the engine accepts,
\* portmap_init calls ip_portmap_add for slot i exactly when the slot is
\* enabled and none of its required fields is 0.
C13_InstallIffEligible ==
  \A cfg \in Configs, oks \in Accepts :
    LET r == portmap_init(S, cfg, oks)
    IN \A i \in 1..8 : Attempted(r.st, cfg[i]) <=> Eligible(cfg[i])

\* C14, as claimed: when the install of a slot fails, every later enabled
\* and complete slot is still attempted.
C14_FailureDoesNotAbort ==
  \A cfg \in Configs, oks \in Accepts :
    LET r == portmap_init(S, cfg, oks)
    IN \A i \in 1..8, j \in 1..8 :
         (/\ i < j
          /\ Eligible(cfg[i])
          /\ Eligible(cfg[j])
          /\ Attempted(r.st, cfg[i])
          /\ ~oks[i])
           => Attempted(r.st, cfg[j])

\* C15, as claimed: when smartconfig_start fails in esptouch_init, the
\* session reports failure on return: esptouch_is_running() is false,
\* esptouch_was_successful() is false and the session timer is released.
\* The state is the one the button interrupt leaves, esptouch_init being
\* the last call of router_enable.
C15_StartFailureReported ==
  (last.op = "button" /\ last.arg = "true" /\ ~smartconfig_running)
    => /\ ~esptouch_is_running(S)
       /\ ~esptouch_was_successful(S)
       /\ esptouch_timeout_timer = NullTimer

\* The state after a call releases nothing it was given.
FreesNothing(s) ==
  \A i \in DOMAIN s.sdk_calls :
    s.sdk_calls[i] # "os_free esptouch_timeout_timer"

\* C16: esptouch_disable cancels the session and is idempotent.  From every
\* reachable state it leaves the session timer null, the transport stopped
\* and esptouch_is_running() false, and a second call leaves that state and
\* releases nothing; the program runs it when wifi_station_set_config fails
\* on a link-attempt event; and while the session is not running no session
\* timeout callback runs.
C16_DisableIdempotent ==
  /\ [](LET once  == esptouch_disable(S)
            twice == esptouch_disable(NoLog(once))
        IN /\ once.esptouch_timeout_timer = NullTimer
           /\ ~esptouch_is_running(once)
           /\ ~once.smartconfig_running
           /\ NoLog(twice) = NoLog(once)
           /\ FreesNothing(twice)
           /\ [NoLog(once) EXCEPT !.esptouch_timeout_timer =
                                    esptouch_timeout_timer,
                                  !.esptouch_running = esptouch_running,
                                  !.smartconfig_running = smartconfig_running]
                = S)
  /\ [][last'.op = "SC_STATUS_LINK" /\ last'.arg = "set_config_failed"
          => /\ esptouch_timeout_timer' = NullTimer
             /\ ~esptouch_running'
             /\ ~smartconfig_running']_vars
  /\ [][~esptouch_running => last'.op # "timeout"]_vars

\* esptouch_disable has ended a session and released its armed timer.
C16_Witness ==
  /\ last.op = "SC_STATUS_LINK"
  /\ last.arg = "set_config_failed"
  /\ ~esptouch_running
  /\ esptouch_timeout_timer = NullTimer
  /\ \E i \in DOMAIN sdk_calls :
       sdk_calls[i] = "os_free esptouch_timeout_timer"

\* C17: on the link-established event the transport is stopped, the session
\* timer released (handle null), running set to false and success to true;
\* the event finds success still false, so the success callback runs once
\* per session; and once the session is successful no session timeout
\* callback runs.
C17_SuccessOnce ==
  /\ [][last'.op = "SC_STATUS_LINK_OVER"
          => /\ ~esptouch_success
             /\ esptouch_success'
             /\ ~esptouch_running'
             /\ esptouch_timeout_timer' = NullTimer
             /\ ~smartconfig_running'
             /\ sdk_calls'[1] = "smartconfig_stop"]_vars
  /\ [][esptouch_success => last'.op \notin ScStatus \cup {"timeout"}]_vars

\* Link-established on the second attempt.
C17_Witness ==
  /\ last.op = "SC_STATUS_LINK_OVER"
  /\ timeouts = 1
  /\ esptouch_success
  /\ \E i \in DOMAIN sdk_calls :
       sdk_calls[i] = "os_free esptouch_timeout_timer"

\* The session timer as a fresh single-shot configuration timeout.
FreshTimeout ==
  [st |-> "armed", fn |-> "esptouch_fail_cb",
   ms |-> ESP_TOUCH_CONFIG_TIMEOUT_THRESHOLD, rep |-> FALSE]

\* C18: a session timeout with esptouch_attempt_count below the limit stops
\* the transport, disconnects the station, adds 1 to the counter, arms the
\* session timer single-shot with ESP_TOUCH_CONFIG_TIMEOUT_THRESHOLD and
\* starts the transport again, in that order; the session stays running and
\* not successful.
C18_TimeoutRetries ==
  [][last'.op = "timeout" /\ last'.arg = "retry"
       => /\ esptouch_attempt_count < ESP_TOUCH_ATTEMPTS_LIMIT
          /\ sdk_calls' = <<"smartconfig_stop", "wifi_station_disconnect",
                            "smartconfig_start">>
          /\ ~station_connect'
          /\ esptouch_attempt_count' = esptouch_attempt_count + 1
          /\ esptouch_timeout_timer' = FreshTimeout
          /\ esptouch_running'
          /\ ~esptouch_success']_vars

\* The second timeout of a session: the third attempt is under way.
C18_Witness ==
  /\ last.op = "timeout"
  /\ last.arg = "retry"
  /\ esptouch_attempt_count = 3
  /\ smartconfig_running
  /\ esptouch_timeout_timer = FreshTimeout

\* C19: a session timeout with esptouch_attempt_count at the limit ends the
\* session: the transport is stopped and not started again, the session
\* timer is released (handle null), esptouch_is_running() becomes false and
\* esptouch_was_successful() stays false; the counter is not changed.
C19_TimeoutAtLimit ==
  [][last'.op = "timeout" /\ last'.arg = "limit"
       => /\ esptouch_attempt_count = ESP_TOUCH_ATTEMPTS_LIMIT
          /\ sdk_calls' = <<"smartconfig_stop", "wifi_station_disconnect",
                            "os_free esptouch_timeout_timer">>
          /\ ~smartconfig_running'
          /\ esptouch_timeout_timer' = NullTimer
          /\ esptouch_running
          /\ ~esptouch_running'
          /\ ~esptouch_success'
          /\ esptouch_attempt_count' = esptouch_attempt_count]_vars

\* The last timeout has ended the session; the poll has not yet seen it.
C19_Witness ==
  /\ last.op = "timeout"
  /\ last.arg = "limit"
  /\ lifecycle = "Provisioning"
  /\ ~esptouch_running
  /\ esptouch_timeout_timer = NullTimer

\* What the lifecycle controller owns: blink and watchdog timers, indicator,
\* responder, interrupt enable, and the lifecycle itself.
lifecycle_vars ==
  <<led_blink_timer, router_conn_timeout_wdt, esptouch_wait_timer, status_led,
    output_power, udp_com_socket, vital_sign_timer, gpio_intr_enabled,
    lifecycle>>

\* C20: the lifecycle leaves Provisioning only in a poll tick that finds
\* esptouch_is_running() false; a poll tick that finds it true changes
\* nothing; and no provisioning callback (status event, success, timeout,
\* disable) changes blink timer, watchdog timer, indicator, responder or
\* interrupt enable.
C20_OnlyPollLeavesProvisioning ==
  /\ [][lifecycle = "Provisioning" /\ lifecycle' # "Provisioning"
          => last'.op = "poll" /\ ~esptouch_running]_vars
  /\ [][last'.op = "poll" /\ esptouch_running => prog' = prog]_vars
  /\ [][last'.op \in ScStatus \cup {"timeout"}
          => lifecycle_vars' = lifecycle_vars]_vars

\* The session has succeeded and the device is still Provisioning, the blink
\* timer running and the watchdog not armed, until the poll sees it.
C20_Witness ==
  /\ last.op = "SC_STATUS_LINK_OVER"
  /\ lifecycle = "Provisioning"
  /\ led_blink_timer.st = "armed"
  /\ router_conn_timeout_wdt.st = "idle"
  /\ ~gpio_intr_enabled

\* The state router_disable_cb leaves: responder stopped, uplink cleared,
\* WiFi role disabled, event handler unregistered, blink and watchdog
\* timers released, indicator off, interrupt latch cleared and interrupt
\* enabled.
TornDown ==
  /\ lifecycle = "Idle"
  /\ udp_com_socket = NullSocket
  /\ vital_sign_timer = NullTimer
  /\ ~station_connect
  /\ wifi_opmode = NULL_MODE
  /\ ~wifi_event_handler
  /\ led_blink_timer = NullTimer
  /\ router_conn_timeout_wdt = NullTimer
  /\ ~status_led
  /\ ~gpio_intr_status
  /\ gpio_intr_enabled

\* The watchdog as the poll arms it.
ArmedWatchdog ==
  [st |-> "armed", fn |-> "router_conn_timeout_wdtfunc",
   ms |-> ROUTER_CONN_TIMEOUT_WDT_INTERVAL, rep |-> TRUE]

\* The vital-sign timer as vital_sign_bcast_start arms it.
ArmedVitalSign ==
  [st |-> "armed", fn |-> "vital_sign_broadcast",
   ms |-> VITAL_SIGN_TIME_INTERVAL, rep |-> TRUE]

\* The poll tick that finds the session ended and successful: poll and
\* blink timers released, indicator on, watchdog armed periodically.
PollSuccessSwitches ==
  [][last'.op = "poll" /\ ~esptouch_running /\ esptouch_success
       => /\ lifecycle' = "Routing"
          /\ esptouch_wait_timer' = NullTimer
          /\ led_blink_timer' = NullTimer
          /\ status_led'
          /\ router_conn_timeout_wdt' = ArmedWatchdog]_vars

\* The poll tick that finds the session ended and not successful: poll
\* timer released, teardown.
PollFailureTearsDown ==
  [][last'.op = "poll" /\ ~esptouch_running /\ ~esptouch_success
       => esptouch_wait_timer' = NullTimer /\ TornDown']_vars

\* The poll tick that finds the session running.
PollRunningChangesNothing ==
  [][last'.op = "poll" /\ esptouch_running
       => prog' = prog /\ sdk_calls' = <<>>]_vars

\* C21, as claimed: the poll tick that finds running false and successful
\* true releases poll and blink timers, switches the indicator on, arms the
\* watchdog periodically and starts responder and vital-sign broadcast; the
\* one that finds successful false releases the poll timer and tears down;
\* the one that finds running true changes nothing.
C21_PollStartsResponder ==
  /\ PollSuccessSwitches
  /\ [][last'.op = "poll" /\ ~esptouch_running /\ esptouch_success
          => /\ udp_com_socket'.st = "alloc"
             /\ udp_com_socket'.created
             /\ vital_sign_timer' = ArmedVitalSign]_vars
  /\ PollFailureTearsDown
  /\ PollRunningChangesNothing

\* C21, amended: as claimed for the timers, the indicator, the watchdog,
\* the failure tick and the running tick.  The success tick then calls
\* device_info_init and vital_sign_bcast_start.  The responder is started,
\* that is its receive callback registered, when the socket and its UDP
\* block can be allocated and espconn_create accepts the socket; the
\* vital-sign broadcast is started when socket, UDP block and vital-sign
\* timer can be allocated, whether or not the socket was accepted.  When
\* the socket cannot be allocated neither is started.  When the UDP block
\* cannot be allocated the socket is released and neither is started; a
\* run that does not end there (the access through the null handle that
\* follows is the subject of C39) goes on Routing without them.  Only in
\* that last case can the tick end the run.
C21_PollTick ==
  /\ PollSuccessSwitches
  /\ PollFailureTearsDown
  /\ PollRunningChangesNothing
  /\ [](esptouch_wait_timer.st = "armed" /\ ~esptouch_running
          /\ esptouch_success /\ ~crashed
          => \A i \in ResponderInputs :
               LET r == esptouch_over_timerfunc(S, i.sock_ok, i.udp_ok,
                                                i.create_ok, i.fault,
                                                i.vital_ok)
               IN IF i.sock_ok /\ i.udp_ok
                  THEN /\ r.udp_com_socket
                            = [st |-> "alloc", udp |-> TRUE,
                               created |-> i.create_ok]
                       /\ r.vital_sign_timer
                            = (IF i.vital_ok THEN ArmedVitalSign
                               ELSE NullTimer)
                       /\ ~r.crashed
                  ELSE /\ r.udp_com_socket = NullSocket
                       /\ r.vital_sign_timer = NullTimer
                       /\ r.crashed => i.sock_ok /\ ~i.udp_ok)
  /\ [][last'.op = "poll" /\ last'.arg = "success"
          => /\ udp_com_socket = NullSocket
             /\ vital_sign_timer = NullTimer
             /\ vital_sign_timer'.st = "armed"
                  => udp_com_socket'.st = "alloc" /\ udp_com_socket'.udp
             /\ udp_com_socket'.created
                  => udp_com_socket'.st = "alloc" /\ udp_com_socket'.udp]_vars
  /\ [][last'.op = "udp_recv"
          => udp_com_socket.created /\ lifecycle = "Routing"]_vars

\* The success tick has started the responder, its socket accepted by
\* espconn_create and the receive callback registered, and the broadcast.
C21_Witness ==
  /\ last.op = "poll"
  /\ last.arg = "success"
  /\ lifecycle = "Routing"
  /\ udp_com_socket = [st |-> "alloc", udp |-> TRUE, created |-> TRUE]
  /\ vital_sign_timer = ArmedVitalSign
  /\ esptouch_wait_timer = NullTimer
  /\ ~crashed

\* A callback has run router_disable_cb: the poll after a failed session,
\* the watchdog without uplink, router_enable after a failed allocation.
TeardownRan ==
  \/ last'.op = "poll" /\ last'.arg = "failure"
  \/ last'.op = "wdt" /\ last'.arg = "lost"
  \/ last'.op = "button" /\ last'.arg = "false"

\* The order of the calls of router_disable_cb in the log of a callback:
\* responder released, then station disconnected, role set and handler
\* unregistered, then blink and watchdog timers released, then indicator
\* off, interrupt disabled, status bit cleared, interrupt enabled; no call
\* follows the enabling of the interrupt and none enables it earlier.
TeardownOrder(log) ==
  LET n == Len(log)
  IN /\ n >= 7
     /\ log[n - 3] = "status_led_off"
     /\ log[n - 2] = "ETS_GPIO_INTR_DISABLE"
     /\ log[n - 1] \in {"GPIO_STATUS_W1TC", "GPIO_STATUS_W1TC pending"}
     /\ log[n] = "ETS_GPIO_INTR_ENABLE"
     /\ \A j \in 1..(n - 1) : log[j] # "ETS_GPIO_INTR_ENABLE"
     /\ \E k \in 1..(n - 6) :
          /\ log[k] = "wifi_station_disconnect"
          /\ log[k + 1] = "wifi_set_opmode"
          /\ log[k + 2] = "wifi_set_event_handler_cb"
          /\ \A j \in 1..n :
               /\ log[j] \in {"os_free vital_sign_timer",
                              "os_free udp_com_socket"} => j < k
               /\ log[j] \in {"os_free led_blink_timer",
                              "os_free router_conn_timeout_wdt"}
                    => k + 2 < j /\ j < n - 3

\* C22: teardown enables the button interrupt as its last step, after the
\* responder is stopped, the uplink cleared, the WiFi role disabled, the
\* timers released and the indicator switched off, and it clears the
\* status bit of the button before enabling; so the handler runs only on
\* an edge that came in Idle, never on one left from Provisioning or
\* Routing.
C22_TeardownClearsLatch ==
  /\ [][TeardownRan => TeardownOrder(sdk_calls') /\ TornDown']_vars
  /\ [](lifecycle = "Idle" /\ gpio_intr_status => last.op = "edge")
  /\ [][last'.op = "button" => last.op = "edge" /\ lifecycle = "Idle"]_vars

\* Teardown from Routing has cleared the status bit, which was pending
\* all the time the interrupt was disabled (the handler leaves it set, and
\* later edges set it again).
C22_Witness ==
  /\ last.op = "wdt"
  /\ last.arg = "lost"
  /\ sdk_calls[Len(sdk_calls) - 1] = "GPIO_STATUS_W1TC pending"
  /\ ~gpio_intr_status
  /\ gpio_intr_enabled

\* C23: after gpio_pins_init has switched the relay on it stays on: the
\* relay is energised in every reachable state, and no callback (button,
\* poll, watchdog, timers, provisioning and WiFi events, teardown within
\* them) changes it.
C23_RelayUntouched ==
  /\ [](output_power)
  /\ [][output_power' = output_power]_vars

\* Idle after the teardown of a failed session, relay still energised.
C23_Witness ==
  /\ last.op = "poll"
  /\ last.arg = "failure"
  /\ lifecycle = "Idle"
  /\ ~status_led
  /\ output_power

\* What router_init and esptouch_init write: the session of esp_touch.c,
\* the connection state, the port-map table, the role and the event handler.
SessionOf(s) ==
  <<s.esptouch_running, s.esptouch_success, s.esptouch_attempt_count,
    s.esptouch_timeout_timer, s.smartconfig_running, s.router_connected,
    s.ip_portmap_table, s.timeouts, s.got_ip>>

\* The calls of router_enable when the watchdog or the poll timer cannot be
\* allocated: those of router_disable_cb and nothing else.
FailedEnableCalls(blink_ok, wdt_ok, pending) ==
  <<"wifi_station_disconnect", "wifi_set_opmode",
    "wifi_set_event_handler_cb">>
  \o (IF blink_ok THEN <<"os_free led_blink_timer">> ELSE <<>>)
  \o (IF wdt_ok THEN <<"os_free router_conn_timeout_wdt">> ELSE <<>>)
  \o <<"status_led_off", "ETS_GPIO_INTR_DISABLE",
       IF pending THEN "GPIO_STATUS_W1TC pending" ELSE "GPIO_STATUS_W1TC",
       "ETS_GPIO_INTR_ENABLE">>

\* C24: router_enable returns false exactly when the watchdog timer or the
\* poll timer cannot be allocated.  Then it makes the calls of teardown and
\* no other (neither those of router_init nor those of esptouch_init), the
\* session, the connection state and the port-map table are as before, and
\* the device is Idle with the interrupt enabled, blink, watchdog and poll
\* timers null.
C24_LoadBearingAllocation ==
  /\ [](lifecycle = "Idle"
          => \A i \in EnableInputs :
               LET r == router_enable(S, i.blink_ok, i.wdt_ok, i.wait_ok,
                                      i.touch_ok, i.start_ok, UserConfig,
                                      [k \in 1..8 |-> i.pm_ok])
               IN /\ r.ret = (i.wdt_ok /\ i.wait_ok)
                  /\ r.ret => r.st.lifecycle = "Provisioning"
                  /\ ~r.ret
                       => /\ r.st.lifecycle = "Idle"
                          /\ r.st.sdk_calls
                               = FailedEnableCalls(i.blink_ok, i.wdt_ok,
                                                   gpio_intr_status)
                          /\ SessionOf(r.st) = SessionOf(S)
                          /\ r.st.led_blink_timer = NullTimer
                          /\ r.st.router_conn_timeout_wdt = NullTimer
                          /\ r.st.esptouch_wait_timer = NullTimer
                          /\ r.st.gpio_intr_enabled
                          /\ ~r.st.gpio_intr_status)
  /\ [][last'.op = "button" /\ last'.arg = "false"
          => /\ TornDown'
             /\ esptouch_wait_timer' = NullTimer
             /\ NoTimerArmed'
             /\ SessionOf(S)' = SessionOf(S)
             /\ TeardownOrder(sdk_calls')]_vars

\* The poll timer could not be allocated: blink and watchdog timers were
\* released again and the device is Idle.
C24_Witness ==
  /\ last.op = "button"
  /\ last.arg = "false"
  /\ lifecycle = "Idle"
  /\ gpio_intr_enabled
  /\ \E i \in DOMAIN sdk_calls :
       sdk_calls[i] = "os_free router_conn_timeout_wdt"
  /\ \E i \in DOMAIN sdk_calls : sdk_calls[i] = "os_free led_blink_timer"

\* The blink timer as router_enable arms it.
ArmedBlink ==
  [st |-> "armed", fn |-> "led_blink_timerfunc", ms |-> LED_BLINK_INTERVAL,
   rep |-> TRUE]

\* The poll timer as router_enable arms it.
ArmedPoll ==
  [st |-> "armed", fn |-> "esptouch_over_timerfunc",
   ms |-> ESPTOUCH_WAIT_INTERVAL, rep |-> TRUE]

NotBlinkRelease(c) == c # "os_free led_blink_timer"

\* C25: when the blink timer cannot be allocated router_enable still
\* enters Provisioning, with the same state as with a blink timer but for
\* the null handle (poll timer armed, router and session initialised); no
\* blink tick runs on a null handle; and from a state without blink timer
\* the poll does what it does with one, to Routing or to Idle, but for the
\* release of the blink timer, which is skipped.
C25_BlinkTimerOptional ==
  /\ [](lifecycle = "Idle"
          => \A i \in EnableInputs :
               i.wdt_ok /\ i.wait_ok
                 => LET with == router_enable(S, TRUE, i.wdt_ok, i.wait_ok,
                                              i.touch_ok, i.start_ok,
                                              UserConfig,
                                              [k \in 1..8 |-> i.pm_ok])
                        without == router_enable(S, FALSE, i.wdt_ok,
                                                 i.wait_ok, i.touch_ok,
                                                 i.start_ok, UserConfig,
                                                 [k \in 1..8 |-> i.pm_ok])
                    IN /\ without.ret
                       /\ without.st.lifecycle = "Provisioning"
                       /\ without.st.esptouch_wait_timer = ArmedPoll
                       /\ without.st.wifi_event_handler
                       /\ without.st.esptouch_running
                       /\ without.st.led_blink_timer = NullTimer
                       /\ with.st.led_blink_timer = ArmedBlink
                       /\ without.st
                            = [with.st EXCEPT !.led_blink_timer = NullTimer])
  /\ [](lifecycle = "Provisioning" /\ led_blink_timer = NullTimer
          => \A i \in ResponderInputs :
               LET without == esptouch_over_timerfunc(
                                S, i.sock_ok, i.udp_ok, i.create_ok, i.fault,
                                i.vital_ok)
                   with == esptouch_over_timerfunc(
                             [S EXCEPT !.led_blink_timer = ArmedBlink],
                             i.sock_ok, i.udp_ok, i.create_ok, i.fault,
                             i.vital_ok)
               IN /\ without.sdk_calls
                       = SelectSeq(with.sdk_calls, NotBlinkRelease)
                  /\ NoLog(without)
                       = NoLog([with EXCEPT !.led_blink_timer =
                                  without.led_blink_timer])
                  /\ ~esptouch_running => with.led_blink_timer = NullTimer)
  /\ [][led_blink_timer = NullTimer => last'.op # "blink"]_vars
  /\ [][lifecycle = "Provisioning" /\ led_blink_timer = NullTimer
          /\ last'.op = "poll"
          => /\ led_blink_timer' = NullTimer
             /\ lifecycle' = (IF esptouch_running THEN "Provisioning"
                              ELSE IF esptouch_success THEN "Routing"
                              ELSE "Idle")]_vars

\* Routing, entered by a poll tick that had no blink timer to release.
C25_Witness ==
  /\ last.op = "poll"
  /\ last.arg = "success"
  /\ lifecycle = "Routing"
  /\ ~crashed
  /\ status_led
  /\ \A i \in DOMAIN sdk_calls : sdk_calls[i] # "os_free led_blink_timer"

\* C26, as claimed: after a got-address event in which the switch to the
\* combined role, the configuration of the access point or the
\* configuration of the subnet fails, is_connected() is false, also when it
\* was true before; so the watchdog tick that follows such an event tears
\* the router down.
C26_FailedGotIpDisconnects ==
  /\ [][last'.op = "EVENT_STAMODE_GOT_IP" /\ last'.arg # "none"
          => ~is_connected(S)']_vars
  /\ [][last'.op = "wdt" /\ last.op = "EVENT_STAMODE_GOT_IP"
          /\ last.arg # "none"
          => lifecycle' = "Idle"]_vars

\* The table with the mapping address ip in every valid entry.
Rewritten(table, ip) ==
  [idx \in 1..IP_PORTMAP_MAX |->
     IF table[idx].valid # 0 THEN [table[idx] EXCEPT !.maddr = ip]
     ELSE table[idx]]

\* Where the call c stands in the log of a callback.
PositionsOf(log, c) == {j \in DOMAIN log : log[j] = c}

\* The calls that configure the access point and its subnet and enable
\* translation.
AccessPointCalls ==
  {"wifi_set_opmode", "wifi_get_macaddr", "wifi_softap_set_config",
   "wifi_softap_dhcps_stop", "wifi_set_ip_info",
   "wifi_softap_set_dhcps_lease", "wifi_softap_dhcps_start",
   "ip_napt_enable", "wifi_set_broadcast_if", "dhcps_set_DNS"}

\* A got-address event has rewritten the table once, before all its other
\* calls (not at all when the table is not allocated, and has no entry).
UpdatedFirst(log, initialised) ==
  /\ PositionsOf(log, "portmap_update") = (IF initialised THEN {1} ELSE {})
  /\ \A c \in AccessPointCalls :
       \A j \in PositionsOf(log, c), k \in PositionsOf(log, "portmap_update") :
         k < j
  /\ \A j \in DOMAIN log :
       log[j] \in AccessPointCalls \cup {"portmap_update"}

\* C27: a got-address event rewrites the mapping address exactly once, in
\* every valid entry, and before anything else: before the access point is
\* configured, before translation is enabled for its subnet and before
\* is_connected() becomes true, so the table is rewritten also by an event
\* whose configuration fails at any step.
C27_UpdateOncePerGotIp ==
  /\ [](wifi_event_handler /\ station_connect
          => \A ip \in Addrs, fail \in FailSteps, fault \in Faults :
               LET r == wifi_handle_event_cb(S, "EVENT_STAMODE_GOT_IP", ip,
                                             fail, fault)
               IN /\ r.ip_portmap_table = Rewritten(ip_portmap_table, ip)
                  /\ UpdatedFirst(r.sdk_calls, portmap_initialised)
                  /\ (is_connected(r) /\ ~is_connected(S))
                       => /\ fail = "none"
                          /\ PositionsOf(r.sdk_calls, "ip_napt_enable") # {})
  /\ [][last'.op = "EVENT_STAMODE_GOT_IP"
          => /\ \E ip \in Addrs :
                  ip_portmap_table' = Rewritten(ip_portmap_table, ip)
             /\ UpdatedFirst(sdk_calls', portmap_initialised)]_vars

\* A got-address event has rewritten the installed rule for the second
\* address and then failed to set the address of the access point:
\* translation was not enabled and is_connected() is false.
C27_Witness ==
  /\ last.op = "EVENT_STAMODE_GOT_IP"
  /\ last.arg = "wifi_set_ip_info"
  /\ sdk_calls[1] = "portmap_update"
  /\ \E i \in 1..IP_PORTMAP_MAX :
       ip_portmap_table[i].valid = 1 /\ ip_portmap_table[i].maddr = MaxAddr
  /\ ~router_connected

\* The calls that write the port-map table: the rewrite, and the install of
\* a slot of user_config.h.
IsPortmapCall(c) ==
  c \in {"portmap_update"}
         \cup {"ip_portmap_add " \o ToString(UserConfig[i].mport) : i \in 1..8}

\* C28, as claimed: while the lifecycle is Routing and is_connected() is
\* true no callback installs a rule or rewrites a mapping address.
C28_NoMutationWhileRouting ==
  [][lifecycle = "Routing" /\ is_connected(S)
       => /\ ip_portmap_table' = ip_portmap_table
          /\ SelectSeq(sdk_calls', IsPortmapCall) = <<>>]_vars

\* C28, amended: the table is written only by router.c: rules are installed
\* only by router_init, in the button interrupt, that is in Idle and never
\* in Routing; mapping addresses are rewritten only by got-address events,
\* which change nothing but the mapping address of valid entries, and such
\* an event can come while the device is Routing and is_connected() is
\* true.  No other callback calls the port map or changes the table.
C28_MutationOnlyByRouter ==
  /\ [][last'.op \notin {"button", "EVENT_STAMODE_GOT_IP"}
          => /\ ip_portmap_table' = ip_portmap_table
             /\ SelectSeq(sdk_calls', IsPortmapCall) = <<>>]_vars
  /\ [][last'.op = "button"
          => /\ lifecycle = "Idle"
             /\ PositionsOf(sdk_calls', "portmap_update") = {}
             /\ \A i \in 1..IP_PORTMAP_MAX :
                  ip_portmap_table[i].valid # 0
                    => ip_portmap_table'[i] = ip_portmap_table[i]]_vars
  /\ [][last'.op = "EVENT_STAMODE_GOT_IP"
          => /\ SelectSeq(sdk_calls', IsPortmapCall)
                  = (IF portmap_initialised THEN <<"portmap_update">>
                     ELSE <<>>)
             /\ \A i \in 1..IP_PORTMAP_MAX :
                  /\ OnlyMaddr(ip_portmap_table[i], ip_portmap_table'[i])
                  /\ ip_portmap_table'[i].valid = ip_portmap_table[i].valid]_vars

\* A got-address event has rewritten the installed rule while the device
\* was Routing with is_connected() true: the event failed at its first
\* step, which leaves is_connected() as it was.
C28_Witness ==
  /\ last.op = "EVENT_STAMODE_GOT_IP"
  /\ last.arg = "wifi_set_opmode"
  /\ lifecycle = "Routing"
  /\ router_connected
  /\ sdk_calls[1] = "portmap_update"
  /\ \E i \in 1..IP_PORTMAP_MAX :
       ip_portmap_table[i].valid = 1 /\ ip_portmap_table[i].maddr = MaxAddr

\* The install of a slot of user_config.h.
IsInstallCall(c) ==
  c \in {"ip_portmap_add " \o ToString(UserConfig[i].mport) : i \in 1..8}

\* The calls that configure the access point and its subnet: those of
\* softap_init, softap_network_config and dns_set.
IsSubnetCall(c) ==
  c \in {"wifi_get_macaddr", "wifi_softap_set_config",
         "wifi_softap_dhcps_stop", "wifi_set_ip_info",
         "wifi_softap_set_dhcps_lease", "wifi_softap_dhcps_start",
         "ip_napt_enable", "wifi_set_broadcast_if", "dhcps_set_DNS"}

\* The calls that device_info.c makes as well: the responder and the
\* broadcast read the interface address, and vital_sign_bcast_start allows
\* broadcasts.
IsResponderCall(c) == c \in {"wifi_get_macaddr", "wifi_set_broadcast_if"}

\* The calls of the configuration that nothing but router.c makes.
IsSubnetOnlyCall(c) == IsSubnetCall(c) /\ ~IsResponderCall(c)

\* C29, as claimed: the port map is loaded and the access point and its
\* subnet are configured on the transition from Provisioning to Routing,
\* that is in the poll tick that finds the session ended and successful,
\* and not before.
C29_ConfiguredOnRoutingEntry ==
  [][(SelectSeq(sdk_calls', IsInstallCall) # <<>>
        \/ SelectSeq(sdk_calls', IsSubnetOnlyCall) # <<>>)
       => /\ last'.op = "poll"
          /\ ~esptouch_running
          /\ esptouch_success
          /\ lifecycle = "Provisioning"
          /\ lifecycle' = "Routing"]_vars

\* C29, amended: the port map is loaded by router_init in router_enable,
\* on the transition from Idle to Provisioning and before the session is
\* started; the access point and its subnet are configured by got-address
\* events and by nothing else, so they can be configured, and
\* is_connected() can be true, while the device is still Provisioning.  Of
\* the calls of the configuration only the two that device_info.c makes as
\* well are made elsewhere, by the poll, the vital-sign tick and the
\* responder.  The poll tick loads nothing and leaves the table and
\* is_connected() alone; its one call that the configuration makes too is
\* wifi_set_broadcast_if of vital_sign_bcast_start, made in the success
\* branch exactly when the responder socket exists.
C29_ConfiguredBeforeRouting ==
  /\ [][SelectSeq(sdk_calls', IsInstallCall) # <<>>
          => /\ last'.op = "button"
             /\ lifecycle = "Idle"
             /\ lifecycle' = "Provisioning"]_vars
  /\ [][last'.op = "button" /\ last'.arg = "true"
          => /\ SelectSeq(sdk_calls', IsInstallCall) # <<>>
             /\ \A j \in PositionsOf(sdk_calls', "smartconfig_start") :
                  \E k \in 1..(j - 1) : IsInstallCall(sdk_calls'[k])]_vars
  /\ [][SelectSeq(sdk_calls', IsSubnetOnlyCall) # <<>>
          => last'.op = "EVENT_STAMODE_GOT_IP"]_vars
  /\ [][SelectSeq(sdk_calls', IsSubnetCall) # <<>>
          => last'.op \in {"EVENT_STAMODE_GOT_IP", "poll", "vital",
                           "udp_recv"}]_vars
  /\ [][last'.op = "poll"
          => /\ SelectSeq(sdk_calls', IsInstallCall) = <<>>
             /\ SelectSeq(sdk_calls', IsSubnetCall)
                  = (IF last'.arg = "success" /\ udp_com_socket'.st # "null"
                     THEN <<"wifi_set_broadcast_if">> ELSE <<>>)
             /\ ip_portmap_table' = ip_portmap_table
             /\ router_connected' = router_connected]_vars

\* The access point is configured and translation enabled for a loaded
\* port map while the device is still Provisioning.
C29_Witness ==
  /\ lifecycle = "Provisioning"
  /\ last.op = "EVENT_STAMODE_GOT_IP"
  /\ last.arg = "none"
  /\ PositionsOf(sdk_calls, "ip_napt_enable") # {}
  /\ router_connected
  /\ \E i \in 1..IP_PORTMAP_MAX : ip_portmap_table[i].valid = 1

\* The steps of softap_network_config in the order of the source; the
\* first four report success or failure.
ConfigSteps ==
  <<"wifi_softap_dhcps_stop", "wifi_set_ip_info",
    "wifi_softap_set_dhcps_lease", "wifi_softap_dhcps_start",
    "ip_napt_enable", "wifi_set_broadcast_if">>

CheckedSteps == {ConfigSteps[k] : k \in 1..4}

\* The steps performed when fail is the first failing call.
StepsUpTo(fail) ==
  IF fail \in CheckedSteps
  THEN SubSeq(ConfigSteps, 1, CHOOSE k \in 1..4 : ConfigSteps[k] = fail)
  ELSE ConfigSteps

\* C30: softap_network_config stops the DHCP service, sets address, mask
\* and gateway, sets the lease range, starts the DHCP service, enables
\* translation and enables broadcast, in that order; the first of the
\* first four steps that fails is the last step performed and makes the
\* result false; translation is enabled exactly when all four succeeded,
\* and then the result is true.  It changes no variable of the program.
\* In a got-address event that fails in one of these steps the failing
\* step is the last call of the event.
C30_SubnetConfigSteps ==
  /\ [](\A fail \in FailSteps :
          LET r == softap_network_config(S, fail)
          IN /\ r.st.sdk_calls = StepsUpTo(fail)
             /\ r.ret = (fail \notin CheckedSteps)
             /\ r.ret = (PositionsOf(r.st.sdk_calls, "ip_napt_enable") # {})
             /\ NoLog(r.st) = S)
  /\ [][last'.op = "EVENT_STAMODE_GOT_IP"
          => /\ last'.arg \in CheckedSteps
                  => /\ sdk_calls'[Len(sdk_calls')] = last'.arg
                     /\ SelectSeq(sdk_calls', IsSubnetCall)
                          = <<"wifi_get_macaddr", "wifi_softap_set_config">>
                              \o StepsUpTo(last'.arg)
             /\ (PositionsOf(sdk_calls', "ip_napt_enable") # {})
                  = (last'.arg = "none")]_vars

\* A got-address event in which setting the lease range failed: the DHCP
\* service was not started again and translation not enabled.
C30_Witness ==
  /\ last.op = "EVENT_STAMODE_GOT_IP"
  /\ last.arg = "wifi_softap_set_dhcps_lease"
  /\ sdk_calls[Len(sdk_calls)] = "wifi_softap_set_dhcps_lease"
  /\ PositionsOf(sdk_calls, "wifi_softap_dhcps_stop") # {}
  /\ PositionsOf(sdk_calls, "ip_napt_enable") = {}
  /\ got_ip = "failed"

\* The session timer armed single-shot for esptouch_fail_cb with the
\* threshold ms.
ArmedTimeout(ms) ==
  [st |-> "armed", fn |-> "esptouch_fail_cb", ms |-> ms, rep |-> FALSE]

\* C31: the credential-receive event arms the session timer with
\* ESP_TOUCH_RECV_TIMEOUT_THRESHOLD and the link-attempt event (credentials
\* applied) with the longer ESP_TOUCH_CONNECTION_TIMEOUT_THRESHOLD, both
\* only on a non-null handle.  There is one handle: esptouch_init allocates
\* it only when the handle is null, and every re-arm replaces the deadline,
\* so the timeout that runs after one of these events is the one that event
\* armed.
C31_RearmPerPhase ==
  /\ [](ESP_TOUCH_RECV_TIMEOUT_THRESHOLD
          < ESP_TOUCH_CONNECTION_TIMEOUT_THRESHOLD)
  /\ [][last'.op = "SC_STATUS_GETTING_SSID_PSWD"
          => esptouch_timeout_timer'
               = (IF esptouch_timeout_timer.st # "null"
                  THEN ArmedTimeout(ESP_TOUCH_RECV_TIMEOUT_THRESHOLD)
                  ELSE NullTimer)]_vars
  /\ [][last'.op = "SC_STATUS_LINK" /\ last'.arg = "-"
          => esptouch_timeout_timer'
               = (IF esptouch_timeout_timer.st # "null"
                  THEN ArmedTimeout(ESP_TOUCH_CONNECTION_TIMEOUT_THRESHOLD)
                  ELSE NullTimer)]_vars
  /\ [][last'.op = "button" => esptouch_timeout_timer = NullTimer]_vars
  /\ [][last'.op = "timeout"
          => /\ last.op = "SC_STATUS_GETTING_SSID_PSWD"
                  => esptouch_timeout_timer
                       = ArmedTimeout(ESP_TOUCH_RECV_TIMEOUT_THRESHOLD)
             /\ last.op = "SC_STATUS_LINK"
                  => esptouch_timeout_timer
                       = ArmedTimeout(ESP_TOUCH_CONNECTION_TIMEOUT_THRESHOLD)
             /\ last.op \in {"button", "timeout"}
                  => esptouch_timeout_timer
                       = ArmedTimeout(ESP_TOUCH_CONFIG_TIMEOUT_THRESHOLD)]_vars

\* The link-attempt event of the second attempt has armed the link
\* timeout.
C31_Witness ==
  /\ last.op = "SC_STATUS_LINK"
  /\ last.arg = "-"
  /\ timeouts = 1
  /\ esptouch_running
  /\ esptouch_timeout_timer
       = ArmedTimeout(ESP_TOUCH_CONNECTION_TIMEOUT_THRESHOLD)

\* C32: a station-disconnected event clears is_connected() and changes
\* nothing else: lifecycle, timers, indicator, interrupt and every other
\* variable stay as they are and no SDK call is made.  The lifecycle leaves
\* Routing only in a watchdog tick that finds is_connected() false, and
\* then by teardown to Idle.
C32_DisconnectOnlyClearsFlag ==
  /\ [][last'.op = "EVENT_STAMODE_DISCONNECTED"
          => /\ ~is_connected(S)'
             /\ S' = [S EXCEPT !.router_connected = FALSE, !.last = last']
             /\ sdk_calls' = <<>>]_vars
  /\ [][lifecycle = "Routing" /\ lifecycle' # "Routing"
          => /\ last'.op = "wdt"
             /\ ~is_connected(S)
             /\ TornDown']_vars

\* The uplink was lost while Routing: is_connected() is false, the device
\* still Routing with watchdog armed and indicator on.
C32_Witness ==
  /\ last.op = "EVENT_STAMODE_DISCONNECTED"
  /\ lifecycle = "Routing"
  /\ got_ip = "ok"
  /\ ~router_connected
  /\ router_conn_timeout_wdt = ArmedWatchdog
  /\ status_led
  /\ ~gpio_intr_enabled

\* C33: in Routing, a station-disconnected event followed by a got-address
\* event whose configuration succeeds (every SDK call succeeds and the run
\* goes on past line 243 of softap_init) leaves the device Routing, with
\* is_connected() true, watchdog armed, indicator on and the mapping address
\* of every valid entry set to the new address; the watchdog tick that
\* comes next changes nothing, and neither of the two events tears down,
\* whatever the outcome of the second.
C33_ReconnectBetweenTicks ==
  /\ [](lifecycle = "Routing" /\ ~crashed /\ wifi_event_handler
          /\ station_connect
          => \A ip \in Addrs, fail \in FailSteps, fault \in Faults :
               LET d == wifi_handle_event_cb(S, "EVENT_STAMODE_DISCONNECTED",
                                             0, "none", "ignored")
                   r == wifi_handle_event_cb(d, "EVENT_STAMODE_GOT_IP", ip,
                                             fail, fault)
                   w == router_conn_timeout_wdtfunc(r)
               IN /\ ~d.router_connected
                  /\ d.lifecycle = "Routing"
                  /\ r.lifecycle = "Routing"
                  /\ r.ip_portmap_table = Rewritten(ip_portmap_table, ip)
                  /\ r.router_conn_timeout_wdt = ArmedWatchdog
                  /\ fail = "none" /\ fault = "ignored" => r.got_ip = "ok"
                  /\ r.got_ip = "ok"
                       => /\ ~r.crashed
                          /\ r.router_connected
                          /\ r.status_led
                          /\ w = r)
  /\ [][last.op = "EVENT_STAMODE_DISCONNECTED" /\ lifecycle = "Routing"
          /\ last'.op = "EVENT_STAMODE_GOT_IP" /\ last'.arg = "none"
          => /\ lifecycle' = "Routing"
             /\ router_connected'
             /\ router_conn_timeout_wdt' = ArmedWatchdog
             /\ \E ip \in Addrs :
                  ip_portmap_table' = Rewritten(ip_portmap_table, ip)]_vars
  /\ [][last'.op = "wdt" /\ router_connected => prog' = prog]_vars

\* The uplink is lost in Routing, the installed rule still mapped to the
\* first address; regaining the uplink with the second address before the
\* next watchdog tick maps the rule to it and the tick tears nothing down.
C33_Witness ==
  /\ last.op = "EVENT_STAMODE_DISCONNECTED"
  /\ lifecycle = "Routing"
  /\ ~router_connected
  /\ wifi_event_handler
  /\ station_connect
  /\ \E i \in 1..IP_PORTMAP_MAX :
       /\ ip_portmap_table[i].valid = 1
       /\ ip_portmap_table[i].maddr = 1
       /\ LET r == wifi_handle_event_cb(S, "EVENT_STAMODE_GOT_IP", MaxAddr,
                                        "none", "ignored")
          IN /\ r.ip_portmap_table[i].maddr = MaxAddr
             /\ r.router_connected
             /\ router_conn_timeout_wdtfunc(r).lifecycle = "Routing"

\* C34: whenever router_enable returns true, from whatever the earlier
\* cycles have left, esptouch_attempt_count is 1, esptouch_running true,
\* esptouch_success false and router_connected false.  In Provisioning
\* esptouch_success becomes true only by a link-established event and
\* router_connected only by a got-address event whose configuration
\* succeeds, so what the poll and the watchdog of a cycle read was written
\* in that cycle.
C34_FreshSession ==
  /\ [](lifecycle = "Idle"
          => \A i \in EnableInputs :
               LET r == router_enable(S, i.blink_ok, i.wdt_ok, i.wait_ok,
                                      i.touch_ok, i.start_ok, UserConfig,
                                      [k \in 1..8 |-> i.pm_ok])
               IN r.ret => /\ r.st.esptouch_attempt_count = 1
                           /\ esptouch_is_running(r.st)
                           /\ ~esptouch_was_successful(r.st)
                           /\ ~is_connected(r.st))
  /\ [][last'.op = "button" /\ last'.arg = "true"
          => /\ esptouch_attempt_count' = 1
             /\ esptouch_running'
             /\ ~esptouch_success'
             /\ ~router_connected'
             /\ timeouts' = 0]_vars
  /\ [][~esptouch_success /\ esptouch_success'
          => last'.op = "SC_STATUS_LINK_OVER" /\ lifecycle = "Provisioning"]_vars
  /\ [][~router_connected /\ router_connected'
          => /\ last'.op = "EVENT_STAMODE_GOT_IP"
             /\ last'.arg = "none"
             /\ lifecycle # "Idle"]_vars

\* Idle after a cycle that ended in Routing on its third attempt, the
\* button pressed again: the outcome of that cycle is still in the statics
\* and router_enable replaces it.
C34_Witness ==
  /\ lifecycle = "Idle"
  /\ gpio_intr_enabled
  /\ gpio_intr_status
  /\ esptouch_success
  /\ esptouch_attempt_count = ESP_TOUCH_ATTEMPTS_LIMIT
  /\ LET r == router_enable(S, TRUE, TRUE, TRUE, TRUE, TRUE, UserConfig,
                            [k \in 1..8 |-> TRUE])
     IN /\ r.ret
        /\ ~r.st.esptouch_success
        /\ r.st.esptouch_attempt_count = 1

\* C35, as claimed: for each session the poll acts exactly once.  At most
\* once: the poll timer is armed (periodic, 500 ms) exactly while the
\* device is Provisioning; the poll changes the lifecycle exactly when it
\* finds the session ended, then to Routing or to Idle, and in that tick
\* it releases its timer as its first call; the timer is armed again only
\* by the button interrupt, so the poll does not run again before the next
\* button press.  At least once: under fairness of the timer expiries,
\* every session that no exception has ended comes to the tick in which
\* the poll acts and releases its timer.
C35_PollActsExactlyOnce ==
  /\ [](esptouch_wait_timer
          = (IF lifecycle = "Provisioning" THEN ArmedPoll ELSE NullTimer))
  /\ [][last'.op = "poll"
          => /\ lifecycle = "Provisioning"
             /\ IF esptouch_running
                THEN lifecycle' = "Provisioning"
                     /\ esptouch_wait_timer' = ArmedPoll
                ELSE /\ lifecycle' = (IF esptouch_success THEN "Routing"
                                      ELSE "Idle")
                     /\ esptouch_wait_timer' = NullTimer
                     /\ sdk_calls'[1] = "os_free esptouch_wait_timer"
                     /\ PositionsOf(sdk_calls', "os_free esptouch_wait_timer")
                          = {1}]_vars
  /\ [][esptouch_wait_timer.st # "armed" /\ esptouch_wait_timer'.st = "armed"
          => last'.op = "button"]_vars
  /\ [][last.op = "poll" /\ last.arg # "running" => last'.op # "poll"]_vars
  /\ (lifecycle = "Provisioning" /\ esptouch_wait_timer = ArmedPoll
        /\ ~crashed)
       ~> (esptouch_wait_timer = NullTimer \/ crashed)

\* C36: a link-attempt event on which wifi_station_set_config fails ends
\* the session at once, whatever the number of attempts left: the station
\* is disconnected and not connected again, the transport stopped, the
\* session timer released and left null by the rest of the event, running
\* false, success false, the attempt counter as it was.  No timeout and no
\* status event follows, and the poll tick that comes next tears down to
\* Idle.
C36_SetConfigFailureEndsSession ==
  /\ [](smartconfig_running
          => LET r == esptouch_status_cb(S, "SC_STATUS_LINK", FALSE)
             IN /\ r.esptouch_timeout_timer = NullTimer
                /\ ~esptouch_is_running(r)
                /\ ~esptouch_was_successful(r)
                /\ ~r.smartconfig_running
                /\ ~r.station_connect
                /\ r.esptouch_attempt_count = esptouch_attempt_count)
  /\ [][last'.op = "SC_STATUS_LINK" /\ last'.arg = "set_config_failed"
          => /\ sdk_calls'
                  = <<"wifi_station_disconnect", "smartconfig_stop">>
                      \o (IF esptouch_timeout_timer.st # "null"
                          THEN <<"os_free esptouch_timeout_timer">>
                          ELSE <<>>)
             /\ esptouch_timeout_timer' = NullTimer
             /\ ~esptouch_running'
             /\ ~esptouch_success'
             /\ esptouch_attempt_count' = esptouch_attempt_count
             /\ timeouts' = timeouts
             /\ lifecycle' = "Provisioning"]_vars
  /\ [][last.op = "SC_STATUS_LINK" /\ last.arg = "set_config_failed"
          => /\ last'.op \notin ScStatus \cup {"timeout"}
             /\ last'.op = "poll" => TornDown' /\ NoTimerArmed']_vars

\* The credentials of the first attempt could not be applied: the session
\* has ended with two attempts left.
C36_Witness ==
  /\ last.op = "SC_STATUS_LINK"
  /\ last.arg = "set_config_failed"
  /\ lifecycle = "Provisioning"
  /\ esptouch_attempt_count = 1
  /\ timeouts = 0
  /\ ~esptouch_running
  /\ ~esptouch_success
  /\ esptouch_timeout_timer = NullTimer
  /\ ~smartconfig_running

\* The session timer has a pending single-shot deadline.
TimeoutPending ==
  /\ esptouch_timeout_timer.st = "armed"
  /\ esptouch_timeout_timer.fn = "esptouch_fail_cb"
  /\ ~esptouch_timeout_timer.rep

\* An attempt of a session with an allocated timer ends in this step: the
\* session stops running or goes on to its next attempt.
AttemptEnds ==
  /\ esptouch_running
  /\ esptouch_timeout_timer.st # "null"
  /\ \/ ~esptouch_running'
     \/ esptouch_attempt_count' # esptouch_attempt_count

\* C37, as claimed: a running session whose timer was allocated has the
\* timer armed, and every attempt of such a session is ended by the
\* link-established event or by a timeout.
C37_EndedByLinkOrTimeout ==
  /\ [](esptouch_running /\ esptouch_timeout_timer.st # "null"
          => TimeoutPending)
  /\ [][AttemptEnds
          => last'.op \in {"SC_STATUS_LINK_OVER", "timeout"}]_vars

\* C37, amended: a running session whose timer was allocated has a pending
\* single-shot deadline for esptouch_fail_cb, after esptouch_init, after
\* every status event that leaves it running and after every retry; only a
\* running session has a timer; and every attempt of such a session is
\* ended by the link-established event, by a timeout, or by a link-attempt
\* event on which wifi_station_set_config fails.
C37_TimeoutAlwaysPending ==
  /\ [](esptouch_running /\ esptouch_timeout_timer.st # "null"
          => TimeoutPending)
  /\ [](esptouch_timeout_timer.st # "null" => esptouch_running)
  /\ [][last'.op = "button" /\ esptouch_timeout_timer'.st # "null"
          => esptouch_timeout_timer'
               = ArmedTimeout(ESP_TOUCH_CONFIG_TIMEOUT_THRESHOLD)]_vars
  /\ [][last'.op \in ScStatus /\ esptouch_timeout_timer.st # "null"
          /\ esptouch_running'
          => TimeoutPending']_vars
  /\ [][last'.op = "timeout" /\ esptouch_running'
          => /\ esptouch_attempt_count' = esptouch_attempt_count + 1
             /\ esptouch_timeout_timer'
                  = ArmedTimeout(ESP_TOUCH_CONFIG_TIMEOUT_THRESHOLD)]_vars
  /\ [][AttemptEnds
          => \/ last'.op \in {"SC_STATUS_LINK_OVER", "timeout"}
             \/ /\ last'.op = "SC_STATUS_LINK"
                /\ last'.arg = "set_config_failed"]_vars

\* The second attempt has just begun: the timeout of the first one re-armed
\* the timer with the configuration threshold.
C37_Witness ==
  /\ last.op = "timeout"
  /\ esptouch_running
  /\ esptouch_attempt_count = 2
  /\ smartconfig_running
  /\ TimeoutPending
  /\ esptouch_timeout_timer.ms = ESP_TOUCH_CONFIG_TIMEOUT_THRESHOLD

\* C38: whenever the poll timer is armed the watchdog handle is allocated
\* (and, the device being in Provisioning, not armed), so lines 171-173 of
\* the poll never meet a null handle: applied to any reachable state in
\* which the poll's success branch can run they arm the watchdog and raise
\* no exception, and every poll tick that took the success branch found the
\* handle non-null and left the watchdog armed periodically.
C38_WatchdogAllocatedWhilePolling ==
  /\ [](esptouch_wait_timer.st = "armed"
          => router_conn_timeout_wdt.st = "idle")
  /\ [](esptouch_wait_timer.st = "armed" /\ ~esptouch_is_running(S)
          /\ esptouch_was_successful(S) /\ ~crashed
          => LET r == ArmWatchdog(S)
             IN /\ ~r.crashed
                /\ r.router_conn_timeout_wdt = ArmedWatchdog)
  /\ [][last'.op = "poll" /\ last'.arg = "success"
          => /\ router_conn_timeout_wdt.st # "null"
             /\ router_conn_timeout_wdt' = ArmedWatchdog]_vars
  /\ [][last'.op = "button" /\ esptouch_wait_timer'.st = "armed"
          => router_conn_timeout_wdt'.st = "idle"]_vars

\* The session has succeeded and the poll has not yet run: its success
\* branch is about to use the watchdog handle, which is allocated.
C38_Witness ==
  /\ lifecycle = "Provisioning"
  /\ ~crashed
  /\ esptouch_wait_timer.st = "armed"
  /\ ~esptouch_running
  /\ esptouch_success
  /\ router_conn_timeout_wdt.st = "idle"
  /\ ArmWatchdog(S).router_conn_timeout_wdt = ArmedWatchdog

\* C39, as claimed: when the allocation of proto.udp fails device_info_init
\* releases the socket and leaves the handle alone, so whatever the build
\* makes of an access through a null pointer the function returns with the
\* socket null and the device running, and no poll tick ends the run.
C39_NullSocketNotAccessed ==
  /\ [](esptouch_wait_timer.st = "armed" /\ ~esptouch_is_running(S)
          /\ esptouch_was_successful(S) /\ ~crashed
          => \A f \in Faults :
               LET r == device_info_init(S, TRUE, FALSE, FALSE, f)
               IN r.udp_com_socket = NullSocket /\ ~r.crashed)
  /\ [][last'.op = "poll" => ~crashed']_vars

====
